---- MODULE Spec2Model ----
(***************************************************************************)
(* Matching and scoring pipeline of the resume relevance checker:          *)
(*   backend/services/matcher.py   ResumeJobMatcher                        *)
(*   backend/services/scorer.py    RelevanceScorer                         *)
(*   backend/services/feedback.py  FeedbackGenerator                       *)
(*   backend/utils/similarity.py   SimilarityCalculator                    *)
(*   backend/routes                the evaluation the routes run and store *)
(*                                                                         *)
(* Numbers.  Python floats are modelled as fixed-point integers.  A score  *)
(* or percentage is held in units of 1/PointScale of a point, so 100       *)
(* points is 100 * PointScale.  Weights are held in tenths (0.6 is 6).     *)
(* round(x, 2) is rounding to a multiple of PointScale / 100.              *)
(*                                                                         *)
(* Strings.  A skill is a sequence of one-character strings, so that       *)
(* lower() and the string-similarity ratios act on characters.  A text is  *)
(* a sequence of words.  A Python dict is a function from its keys;        *)
(* None is the record PyNone.                                              *)
(***************************************************************************)
EXTENDS Integers, Sequences, FiniteSets, TLC

\* ------------------------------------------------------------ arithmetic

\* the unit of round(x, 2): 0.01 point, held with three further digits
Cent == 10 * 10 * 10

\* units per point
PointScale == 100 * Cent

\* 100.0 in units
Hundred == 100 * PointScale

Min(a, b) == IF a <= b THEN a ELSE b

Max(a, b) == IF a >= b THEN a ELSE b

\* n / d rounded to the nearest integer, ties to the even neighbour (d > 0)
RoundDiv(n, d) ==
  LET q == n \div d
      r == n % d
  IN  IF 2 * r < d THEN q
      ELSE IF 2 * r > d THEN q + 1
      ELSE IF q % 2 = 0 THEN q ELSE q + 1

\* round(x, 2), in units
Round2(x) == RoundDiv(x, Cent) * Cent

\* ---------------------------------------------------------- Python dicts

PyNone == [py_none |-> TRUE]

IsNone(v) == DOMAIN v = {"py_none"}

EmptyDict == [k \in {} |-> 0]

HasKey(d, k) == k \in DOMAIN d

\* d.get(k, default)
Get(d, k, default) == IF k \in DOMAIN d THEN d[k] ELSE default

\* --------------------------------------------------------------- strings

\* str.lower() on one character
LowerChar(c) ==
  CASE c = "A" -> "a"
    [] c = "P" -> "p"
    [] c = "S" -> "s"
    [] OTHER -> c

\* str.lower()
Lower(s) == [i \in 1..Len(s) |-> LowerChar(s[i])]

\* [f(x) for x in xs]
LowerAll(xs) == [i \in 1..Len(xs) |-> Lower(xs[i])]

\* x in xs
In(x, xs) == \E i \in 1..Len(xs) : xs[i] = x

\* xs[:n]
Take(xs, n) == SubSeq(xs, 1, Min(n, Len(xs)))

\* ------------------------------------------------- matcher: skill lists

RECURSIVE ExactLoop(_, _, _, _, _)
\* the loop of exact_skill_match over job_skills_lower, from position i
ExactLoop(job_skills_lower, resume_skills_lower, i, matched_skills, missing_skills) ==
  IF i > Len(job_skills_lower)
  THEN [matched_skills |-> matched_skills, missing_skills |-> missing_skills]
  ELSE IF In(job_skills_lower[i], resume_skills_lower)
  THEN ExactLoop(job_skills_lower, resume_skills_lower, i + 1,
                 Append(matched_skills, job_skills_lower[i]), missing_skills)
  ELSE ExactLoop(job_skills_lower, resume_skills_lower, i + 1,
                 matched_skills, Append(missing_skills, job_skills_lower[i]))

\* (matched / total) * 100, 0 for an empty list
Percentage(matched, total) ==
  IF total > 0 THEN RoundDiv(matched * Hundred, total) ELSE 0

\* exact_skill_match comparing the skills as written, without lower()
exact_skill_match_as_written(resume_skills, job_skills) ==
  [matched_skills |-> ExactLoop(job_skills, resume_skills, 1, <<>>, <<>>).matched_skills,
   missing_skills |-> ExactLoop(job_skills, resume_skills, 1, <<>>, <<>>).missing_skills,
   match_percentage |->
     Percentage(Len(ExactLoop(job_skills, resume_skills, 1, <<>>, <<>>).matched_skills),
                Len(job_skills)),
   matched_count |-> Len(ExactLoop(job_skills, resume_skills, 1, <<>>, <<>>).matched_skills),
   total_required |-> Len(job_skills)]

\* ResumeJobMatcher.exact_skill_match
exact_skill_match(resume_skills, job_skills) ==
  LET resume_skills_lower == LowerAll(resume_skills)
      job_skills_lower == LowerAll(job_skills)
      r == ExactLoop(job_skills_lower, resume_skills_lower, 1, <<>>, <<>>)
  IN  [matched_skills |-> r.matched_skills,
       missing_skills |-> r.missing_skills,
       match_percentage |->
         Percentage(Len(r.matched_skills), Len(job_skills_lower)),
       matched_count |-> Len(r.matched_skills),
       total_required |-> Len(job_skills_lower)]

\* ---- difflib.SequenceMatcher (no junk: the strings are far below 200)

\* the blocks a[i..i+k-1] = b[j..j+k-1] inside a[alo..ahi], b[blo..bhi]
CommonBlocks(a, b, alo, ahi, blo, bhi) ==
  {t \in (alo..ahi) \X (blo..bhi) \X (1..(ahi - alo + 1)) :
     /\ t[1] + t[3] - 1 <= ahi
     /\ t[2] + t[3] - 1 <= bhi
     /\ \A d \in 0..(t[3] - 1) : a[t[1] + d] = b[t[2] + d]}

\* find_longest_match: the longest block, then earliest in a, then in b
LongestMatch(a, b, alo, ahi, blo, bhi) ==
  LET cs == CommonBlocks(a, b, alo, ahi, blo, bhi)
  IN  IF cs = {} THEN <<alo, blo, 0>>
      ELSE CHOOSE t \in cs : \A u \in cs :
             \/ t[3] > u[3]
             \/ t[3] = u[3] /\ t[1] < u[1]
             \/ t[3] = u[3] /\ t[1] = u[1] /\ t[2] <= u[2]

RECURSIVE MatchingBlocks(_, _, _, _, _, _)
RECURSIVE AroundMatch(_, _, _, _, _, _, _)
\* get_matching_blocks without the closing dummy block
MatchingBlocks(a, b, alo, ahi, blo, bhi) ==
  IF alo > ahi \/ blo > bhi THEN {}
  ELSE AroundMatch(a, b, alo, ahi, blo, bhi,
                   LongestMatch(a, b, alo, ahi, blo, bhi))

\* the longest match m and the blocks to its left and to its right
AroundMatch(a, b, alo, ahi, blo, bhi, m) ==
  IF m[3] = 0 THEN {}
  ELSE {m} \cup MatchingBlocks(a, b, alo, m[1] - 1, blo, m[2] - 1)
           \cup MatchingBlocks(a, b, m[1] + m[3], ahi, m[2] + m[3], bhi)

RECURSIVE SumSizes(_)
SumSizes(blocks) ==
  IF blocks = {} THEN 0
  ELSE LET t == CHOOSE u \in blocks : TRUE
       IN  t[3] + SumSizes(blocks \ {t})

\* SequenceMatcher.ratio() as the fraction <<2 * matches, total length>>
MatcherRatio(a, b) ==
  <<2 * SumSizes(MatchingBlocks(a, b, 1, Len(a), 1, Len(b))), Len(a) + Len(b)>>

\* ---- fuzzywuzzy.fuzz on processed strings

\* fuzz.ratio: 100 for equal strings, 0 when one is empty, else
\* int(round(100 * SequenceMatcher.ratio()))
fuzz_ratio(s1, s2) ==
  IF s1 = s2 THEN 100
  ELSE IF Len(s1) = 0 \/ Len(s2) = 0 THEN 0
  ELSE LET r == MatcherRatio(s1, s2) IN RoundDiv(100 * r[1], r[2])

MaxOf(S) == CHOOSE v \in S : \A w \in S : v >= w

\* fuzz.partial_ratio: the best ratio of the shorter string against the
\* windows of the longer one that the matching blocks line up
fuzz_partial_ratio(s1, s2) ==
  IF s1 = s2 THEN 100
  ELSE IF Len(s1) = 0 \/ Len(s2) = 0 THEN 0
  ELSE LET shorter == IF Len(s1) <= Len(s2) THEN s1 ELSE s2
           longer == IF Len(s1) <= Len(s2) THEN s2 ELSE s1
           blocks == MatchingBlocks(shorter, longer, 1, Len(shorter), 1, Len(longer))
                       \cup {<<Len(shorter) + 1, Len(longer) + 1, 0>>}
           start(t) == IF t[2] - t[1] > 0 THEN t[2] - t[1] + 1 ELSE 1
           window(t) == SubSeq(longer, start(t),
                               Min(start(t) + Len(shorter) - 1, Len(longer)))
           score(t) == LET r == MatcherRatio(shorter, window(t))
                       IN  IF 1000 * r[1] > 995 * r[2] THEN 100
                           ELSE RoundDiv(100 * r[1], r[2])
       IN  MaxOf({score(t) : t \in blocks})

\* fuzz.token_sort_ratio on strings of one alphanumeric token: sorting
\* the tokens leaves each string as it is
fuzz_token_sort_ratio(s1, s2) == fuzz_ratio(s1, s2)

\* the three ratios on the skills as written, without lower()
PairScore_as_written(job_skill, resume_skill) ==
  Max(fuzz_ratio(job_skill, resume_skill),
      Max(fuzz_partial_ratio(job_skill, resume_skill),
          fuzz_token_sort_ratio(job_skill, resume_skill)))

\* max(ratio, partial_ratio, token_ratio) of one job skill and one resume skill
PairScore(job_skill, resume_skill) ==
  LET ratio == fuzz_ratio(Lower(job_skill), Lower(resume_skill))
      partial_ratio == fuzz_partial_ratio(Lower(job_skill), Lower(resume_skill))
      token_ratio == fuzz_token_sort_ratio(Lower(job_skill), Lower(resume_skill))
  IN  Max(ratio, Max(partial_ratio, token_ratio))

\* one pass of the inner loop of fuzzy_skill_match: best is
\* [best_match, best_score]
BestStep(best, resume_skill, score) ==
  IF score > best.best_score
  THEN [best_match |-> resume_skill, best_score |-> score]
  ELSE best

RECURSIVE BestLoop(_, _, _, _)
\* the inner loop of fuzzy_skill_match over resume_skills, from position i
BestLoop(job_skill, resume_skills, i, best) ==
  IF i > Len(resume_skills) THEN best
  ELSE BestLoop(job_skill, resume_skills, i + 1,
                BestStep(best, resume_skills[i],
                         PairScore(job_skill, resume_skills[i])))

\* best_match = None in a position that otherwise holds a str
NoneStr == <<"None">>

\* lines 72-80 of fuzzy_skill_match: the job skill goes to one of the lists
FuzzyStep(acc, job_skill, best, threshold) ==
  IF best.best_score >= threshold
  THEN [acc EXCEPT
          !.matched_skills = Append(@,
             [job_skill |-> job_skill,
              resume_skill |-> best.best_match,
              similarity |-> best.best_score]),
          !.skill_similarities =
             [k \in DOMAIN @ \cup {job_skill} |->
                IF k = job_skill THEN best.best_score ELSE @[k]]]
  ELSE [acc EXCEPT !.missing_skills = Append(@, job_skill)]

RECURSIVE FuzzyLoop(_, _, _, _, _)
\* the outer loop of fuzzy_skill_match over job_skills, from position i
FuzzyLoop(resume_skills, job_skills, threshold, i, acc) ==
  IF i > Len(job_skills) THEN acc
  ELSE FuzzyLoop(resume_skills, job_skills, threshold, i + 1,
         FuzzyStep(acc, job_skills[i],
                   BestLoop(job_skills[i], resume_skills, 1,
                            [best_match |-> NoneStr, best_score |-> 0]),
                   threshold))

\* lines 82-88 of fuzzy_skill_match: the result, given the lists r the
\* loop has built
FuzzyResult(r, job_skills, threshold) ==
  [matched_skills |-> r.matched_skills,
   missing_skills |-> r.missing_skills,
   skill_similarities |-> r.skill_similarities,
   fuzzy_match_percentage |->
     Percentage(Len(r.matched_skills), Len(job_skills)),
   threshold_used |-> threshold]

\* ResumeJobMatcher.fuzzy_skill_match
fuzzy_skill_match(resume_skills, job_skills, threshold) ==
  FuzzyResult(FuzzyLoop(resume_skills, job_skills, threshold, 1,
                        [matched_skills |-> <<>>, missing_skills |-> <<>>,
                         skill_similarities |-> EmptyDict]),
              job_skills, threshold)

\* the default of fuzzy_skill_match's threshold parameter
DefaultFuzzyThreshold == 80

\* ------------------------------------------------------ matcher: texts

\* str.lower() on one word of a text
LowerWord(w) == IF w = "SQL" THEN "sql" ELSE w

\* ResumeJobMatcher.preprocess_text: the lower-cased words of the text;
\* \b\w+\b finds no word in a special character
preprocess_text(text) ==
  LET words == SelectSeq(text, LAMBDA w : w # "!")
  IN  [i \in 1..Len(words) |-> LowerWord(words[i])]

\* the words of the model's texts in string order
SortedWords == <<"python", "sql", "the">>

WordRank(w) == CHOOSE i \in 1..Len(SortedWords) : SortedWords[i] = w

\* sklearn's English stop words among the words of the model
StopWords == {"the"}

RECURSIVE DropStopWords(_)
DropStopWords(ws) ==
  IF ws = <<>> THEN <<>>
  ELSE IF Head(ws) \in StopWords THEN DropStopWords(Tail(ws))
  ELSE <<Head(ws)>> \o DropStopWords(Tail(ws))

\* the analyzer of TfidfVectorizer(stop_words='english', ngram_range=(1, 2),
\* lowercase=True): the terms of one document, with repetition
Analyze(text) ==
  LET ws == DropStopWords(preprocess_text(text))
  IN  [i \in 1..Len(ws) |-> <<ws[i]>>]
        \o [i \in 1..(Len(ws) - 1) |-> <<ws[i], ws[i + 1]>>]

\* string order of two terms (a bigram is its words joined by a space)
TermLess(t, u) ==
  \/ WordRank(t[1]) < WordRank(u[1])
  \/ /\ t[1] = u[1]
     /\ \/ Len(t) < Len(u)
        \/ Len(t) = 2 /\ Len(u) = 2 /\ WordRank(t[2]) < WordRank(u[2])

RECURSIVE SortTerms(_)
SortTerms(ts) ==
  IF ts = {} THEN <<>>
  ELSE LET m == CHOOSE t \in ts : \A u \in ts \ {t} : TermLess(t, u)
       IN  <<m>> \o SortTerms(ts \ {m})

Count(xs, x) == Cardinality({i \in 1..Len(xs) : xs[i] = x})

\* CountVectorizer._count_vocab on the two documents: the sorted vocabulary
\* and the term counts X[doc][feature]
CountVocab(corpus) ==
  LET docs == [d \in 1..2 |-> Analyze(corpus[d])]
      vocabulary ==
        SortTerms(UNION {{docs[d][i] : i \in 1..Len(docs[d])} : d \in 1..2})
  IN  [vocabulary |-> vocabulary,
       X |-> [d \in 1..2 |->
                [k \in 1..Len(vocabulary) |-> Count(docs[d], vocabulary[k])]]]

\* TfidfTransformer.fit: idf = ln((1 + n) / (1 + df)) + 1 for n = 2
\* documents, in tenths: 1.4 for df = 1 and 1.0 for df = 2
IdfOf(df) == IF df = 1 THEN 14 ELSE 10

FitIdf(X) ==
  [k \in 1..Len(X[1]) |->
     IdfOf(Cardinality({d \in 1..2 : X[d][k] > 0}))]

RECURSIVE SqrtSearch(_, _, _)
SqrtSearch(n, lo, hi) ==
  IF lo = hi THEN lo
  ELSE LET mid == (lo + hi + 1) \div 2
       IN  IF mid * mid <= n THEN SqrtSearch(n, mid, hi)
           ELSE SqrtSearch(n, lo, mid - 1)

\* floor of the square root
Isqrt(n) == SqrtSearch(n, 0, Min(n, 46340))

RECURSIVE SumSeq(_)
SumSeq(xs) == IF xs = <<>> THEN 0 ELSE Head(xs) + SumSeq(Tail(xs))

\* units of similarity_percentage per 1/10000 of cosine similarity
CosineUnit == Hundred \div 10000

\* cosine_similarity of the two rows of tf * idf, in 1/10000
Cosine(W) ==
  LET n1 == SumSeq([k \in 1..Len(W[1]) |-> W[1][k] * W[1][k]])
      n2 == SumSeq([k \in 1..Len(W[2]) |-> W[2][k] * W[2][k]])
      dot == SumSeq([k \in 1..Len(W[1]) |-> W[1][k] * W[2][k]])
  IN  IF n1 = 0 \/ n2 = 0 THEN 0
      ELSE RoundDiv(dot * 10000, Isqrt(n1 * n2))

\* the l2-normalised row of the job document, in 1/100
JobFeatures(W) ==
  LET n2 == SumSeq([k \in 1..Len(W[2]) |-> W[2][k] * W[2][k]])
  IN  [k \in 1..Len(W[2]) |->
         IF n2 = 0 THEN 0 ELSE Isqrt((W[2][k] * W[2][k] * 10000) \div n2)]

\* the number of features tfidf_similarity reports
TopFeatures == 20

RECURSIVE ArgsortDesc(_, _)
\* argsort()[::-1] of the features in idx: descending value, the higher
\* index first among equal values
ArgsortDesc(values, idx) ==
  IF idx = {} THEN <<>>
  ELSE LET m == CHOOSE k \in idx : \A j \in idx :
                  values[k] > values[j] \/ (values[k] = values[j] /\ k >= j)
       IN  <<m>> \o ArgsortDesc(values, idx \ {m})

\* the result of tfidf_similarity when the vectorizer raises
TfidfError ==
  [tfidf_similarity |-> 0, similarity_percentage |-> 0,
   top_job_features |-> <<>>, resume_vector_size |-> 0, job_vector_size |-> 0]

\* lines 134-152 of tfidf_similarity, given the counts X of this call, the
\* idf vector the transform read and the vocabulary get_feature_names_out
\* read from the vectorizer
TfidfResult(X, idf, feature_names) ==
  IF Len(idf) # Len(X[1]) THEN TfidfError
  ELSE
    LET W == [d \in 1..2 |-> [k \in 1..Len(X[d]) |-> X[d][k] * idf[k]]]
        similarity_score == Cosine(W)
        job_features == JobFeatures(W)
        top_features_idx ==
          Take(ArgsortDesc(job_features, 1..Len(job_features)), TopFeatures)
        positive == {i \in 1..Len(top_features_idx) :
                       job_features[top_features_idx[i]] > 0}
    IN  IF \E i \in positive : top_features_idx[i] > Len(feature_names)
        THEN TfidfError
        ELSE
          [tfidf_similarity |-> similarity_score,
           similarity_percentage |-> similarity_score * CosineUnit,
           top_job_features |->
             [i \in 1..Cardinality(positive) |->
                <<feature_names[top_features_idx[i]],
                  job_features[top_features_idx[i]]>>],
           resume_vector_size |-> Len(X[1]),
           job_vector_size |-> Len(X[2])]

\* the state fit_transform leaves in the vectorizer
Fitted(X, vocabulary) == [vocabulary_ |-> vocabulary, idf_ |-> FitIdf(X)]

\* fit_transform that fits only a vectorizer not yet fitted, and transforms
\* with the idf and the vocabulary of the first fit afterwards
FitTransform_fit_once(vec, cv) ==
  IF Len(cv.vocabulary) = 0
  THEN [result |-> TfidfError, vec |-> vec]
  ELSE IF Len(vec.vocabulary_) > 0
  THEN [result |-> TfidfResult(cv.X, vec.idf_, vec.vocabulary_), vec |-> vec]
  ELSE [result |-> TfidfResult(cv.X, FitIdf(cv.X), cv.vocabulary),
        vec |-> Fitted(cv.X, cv.vocabulary)]

\* fit_transform and the lines after it, given the counts cv of the call
FitTransform(vec, cv) ==
  IF Len(cv.vocabulary) = 0
  THEN \* ValueError: empty vocabulary; the vectorizer keeps its state
       [result |-> TfidfError, vec |-> vec]
  ELSE [result |-> TfidfResult(cv.X, FitIdf(cv.X), cv.vocabulary),
        vec |-> Fitted(cv.X, cv.vocabulary)]

\* ResumeJobMatcher.tfidf_similarity run without interruption on the
\* vectorizer vec: the result and the vectorizer afterwards
tfidf_similarity(vec, resume_text, job_text) ==
  FitTransform(vec, CountVocab(<<resume_text, job_text>>))

\* ---- rank_bm25.BM25Okapi on the corpus [resume_words, job_words]

\* ln(0.5) - ln(2.5), the idf of a word found in both documents, in units
LnBothDocs == -160944

WordsOf(ws) == {ws[i] : i \in 1..Len(ws)}

\* BM25Okapi._calc_idf: a word found in one document has idf 0; the
\* negative idf of a word found in both is replaced by
\* epsilon * average_idf, epsilon = 0.25
BM25Epsilon(resume_words, job_words) ==
  LET all == WordsOf(resume_words) \cup WordsOf(job_words)
      both == WordsOf(resume_words) \cap WordsOf(job_words)
  IN  RoundDiv(LnBothDocs * Cardinality(both), 4 * Cardinality(all))

\* one query word's term of BM25Okapi.get_scores for the resume document,
\* k1 = 1.5, b = 0.75: idf * f * 2.5 / (f + 1.5 * (0.25 + 0.75 * dl / avgdl))
BM25Term(q, resume_words, job_words) ==
  LET f == Count(resume_words, q)
      total == Len(resume_words) + Len(job_words)
      idf == IF q \in WordsOf(resume_words) /\ q \in WordsOf(job_words)
             THEN BM25Epsilon(resume_words, job_words) ELSE 0
  IN  IF f = 0 THEN 0
      ELSE RoundDiv(idf * 20 * f * total,
                    8 * f * total + 3 * total + 18 * Len(resume_words))

\* bm25.get_scores(query)[0], in units
BM25Score(query, resume_words, job_words) ==
  SumSeq([i \in 1..Len(query) |-> BM25Term(query[i], resume_words, job_words)])

\* the number of terms keyword_match_bm25 reports
TopTerms == 10

RECURSIVE SortByScore(_, _)
\* the words sorted by descending score, equal scores in the iteration
\* order of the set (here: string order)
SortByScore(ws, score) ==
  IF ws = {} THEN <<>>
  ELSE LET m == CHOOSE w \in ws : \A v \in ws :
                  score[w] > score[v]
                  \/ (score[w] = score[v] /\ WordRank(w) <= WordRank(v))
       IN  <<<<m, score[m]>>>> \o SortByScore(ws \ {m}, score)

\* ResumeJobMatcher.keyword_match_bm25
keyword_match_bm25(resume_text, job_text) ==
  LET resume_words == preprocess_text(resume_text)
      job_words == preprocess_text(job_text)
  IN  IF Len(resume_words) + Len(job_words) = 0
      THEN \* BM25Okapi divides by the number of distinct words
           [bm25_score |-> 0, top_matching_terms |-> <<>>, normalized_score |-> 0]
      ELSE
        LET job_score == BM25Score(job_words, resume_words, job_words)
            word_score == [w \in WordsOf(job_words) |->
                             BM25Score(<<w>>, resume_words, job_words)]
        IN  [bm25_score |-> job_score,
             top_matching_terms |->
               Take(SortByScore(WordsOf(job_words), word_score), TopTerms),
             normalized_score |-> Min(job_score * 10, Hundred)]

\* ---------------------------------------- matcher: comprehensive_match

\* a skill-list element that is not a str (a JSON number of the job form)
NotAString == <<"<number>">>

IsStr(v) == v # NotAString

\* skill.lower() raises AttributeError in exact_skill_match
ExactRaises(resume_skills, job_skills) ==
  \/ \E i \in 1..Len(resume_skills) : ~IsStr(resume_skills[i])
  \/ \E i \in 1..Len(job_skills) : ~IsStr(job_skills[i])

\* job_skill.lower() or resume_skill.lower() raises in fuzzy_skill_match:
\* the calls sit in the inner loop, which runs once per pair
FuzzyRaises(resume_skills, job_skills) ==
  /\ Len(resume_skills) > 0
  /\ Len(job_skills) > 0
  /\ ExactRaises(resume_skills, job_skills)

Digits == <<"0", "1", "2", "3", "4", "5", "6", "7", "8", "9">>

IsDigit(c) == \E d \in 1..10 : Digits[d] = c

DigitValue(c) == (CHOOSE d \in 1..10 : Digits[d] = c) - 1

RECURSIVE IntOfDigits(_, _)
\* int(s) for a str of decimal digits, read from the left
IntOfDigits(s, acc) ==
  IF s = <<>> THEN acc
  ELSE IntOfDigits(Tail(s), 10 * acc + DigitValue(Head(s)))

\* int(exp['years']) succeeds: the value under 'years' is an int, or a str
\* of digits; None raises TypeError and any other str ValueError
IsParseable(years) ==
  \/ "py_int" \in DOMAIN years
  \/ /\ "py_str" \in DOMAIN years
     /\ Len(years.py_str) > 0
     /\ \A i \in 1..Len(years.py_str) : IsDigit(years.py_str[i])

\* int(exp['years'])
IntOf(years) ==
  IF "py_int" \in DOMAIN years THEN years.py_int
  ELSE IntOfDigits(years.py_str, 0)

RECURSIVE YearsLoop_unparsed_as_zero(_, _)
\* the loop of _match_experience, were a record without a readable years
\* value counted as 0 years
YearsLoop_unparsed_as_zero(resume_exp, i) ==
  IF i > Len(resume_exp) THEN <<>>
  ELSE IF HasKey(resume_exp[i], "years") /\ IsParseable(resume_exp[i].years)
  THEN <<IntOf(resume_exp[i].years)>> \o YearsLoop_unparsed_as_zero(resume_exp, i + 1)
  ELSE <<0>> \o YearsLoop_unparsed_as_zero(resume_exp, i + 1)

RECURSIVE YearsLoop(_, _)
\* the loop of _match_experience: the parsed years, in list order
YearsLoop(resume_exp, i) ==
  IF i > Len(resume_exp) THEN <<>>
  ELSE IF HasKey(resume_exp[i], "years") /\ IsParseable(resume_exp[i].years)
  THEN <<IntOf(resume_exp[i].years)>> \o YearsLoop(resume_exp, i + 1)
  ELSE YearsLoop(resume_exp, i + 1)

RECURSIVE MaxSeq(_)
MaxSeq(xs) ==
  IF Len(xs) = 1 THEN xs[1] ELSE Max(Head(xs), MaxSeq(Tail(xs)))

\* ResumeJobMatcher._match_experience
match_experience(resume_data, job_data) ==
  LET resume_exp == Get(resume_data, "experience", <<>>)
      resume_years == YearsLoop(resume_exp, 1)
  IN  [resume_max_years |-> IF Len(resume_years) > 0 THEN MaxSeq(resume_years) ELSE 0,
       has_experience |-> Len(resume_exp) > 0,
       experience_details |-> Take(resume_exp, 3)]

\* ResumeJobMatcher._match_education
match_education(resume_data, job_data) ==
  LET resume_edu == Get(resume_data, "education", <<>>)
  IN  [has_degree |-> Len(resume_edu) > 0,
       education_types |->
         [i \in 1..Len(resume_edu) |-> Get(resume_edu[i], "degree", "")],
       education_details |-> resume_edu]

\* str(e) of the AttributeError that skill.lower() raises
LowerError == "'int' object has no attribute 'lower'"

\* lines 183-197 of comprehensive_match: the report built from the six
\* sections; tfidf is [result, vec]
MatchReport(exact_match, fuzzy_match, bm25_match, tfidf, experience_match, education_match) ==
  [report |->
     [exact_skill_match |-> exact_match,
      fuzzy_skill_match |-> fuzzy_match,
      bm25_match |-> bm25_match,
      tfidf_match |-> tfidf.result,
      experience_match |-> experience_match,
      education_match |-> education_match,
      overall_metrics |->
        [skills_covered |-> exact_match.match_percentage,
         text_similarity |-> tfidf.result.similarity_percentage,
         keyword_relevance |-> bm25_match.normalized_score]],
   vec |-> tfidf.vec]

\* comprehensive_match with the try block around the skill matchers only:
\* the error is added to the sections that did not raise
comprehensive_match_partial(vec, resume_data, job_data) ==
  IF \/ ExactRaises(Get(resume_data, "skills", <<>>),
                    Get(job_data, "required_skills", <<>>))
     \/ FuzzyRaises(Get(resume_data, "skills", <<>>),
                    Get(job_data, "required_skills", <<>>)
                      \o Get(job_data, "preferred_skills", <<>>))
  THEN [report |->
          [error |-> LowerError,
           bm25_match |-> keyword_match_bm25(Get(resume_data, "clean_text", <<>>),
                                             Get(job_data, "clean_text", <<>>)),
           experience_match |-> match_experience(resume_data, job_data),
           education_match |-> match_education(resume_data, job_data)],
        vec |-> vec]
  ELSE MatchReport(exact_skill_match(Get(resume_data, "skills", <<>>),
                                     Get(job_data, "required_skills", <<>>)),
                   fuzzy_skill_match(Get(resume_data, "skills", <<>>),
                                     Get(job_data, "required_skills", <<>>)
                                       \o Get(job_data, "preferred_skills", <<>>),
                                     DefaultFuzzyThreshold),
                   keyword_match_bm25(Get(resume_data, "clean_text", <<>>),
                                      Get(job_data, "clean_text", <<>>)),
                   tfidf_similarity(vec, Get(resume_data, "clean_text", <<>>),
                                    Get(job_data, "clean_text", <<>>)),
                   match_experience(resume_data, job_data),
                   match_education(resume_data, job_data))

\* ResumeJobMatcher.comprehensive_match on the vectorizer vec: the
\* MatchReport and the vectorizer afterwards
comprehensive_match(vec, resume_data, job_data) ==
  LET resume_skills == Get(resume_data, "skills", <<>>)
      job_required_skills == Get(job_data, "required_skills", <<>>)
      job_preferred_skills == Get(job_data, "preferred_skills", <<>>)
      resume_text == Get(resume_data, "clean_text", <<>>)
      job_text == Get(job_data, "clean_text", <<>>)
  IN  IF \/ ExactRaises(resume_skills, job_required_skills)
         \/ FuzzyRaises(resume_skills, job_required_skills \o job_preferred_skills)
      THEN [report |-> [error |-> LowerError], vec |-> vec]
      ELSE
        MatchReport(exact_skill_match(resume_skills, job_required_skills),
                    fuzzy_skill_match(resume_skills,
                                      job_required_skills \o job_preferred_skills,
                                      DefaultFuzzyThreshold),
                    keyword_match_bm25(resume_text, job_text),
                    tfidf_similarity(vec, resume_text, job_text),
                    match_experience(resume_data, job_data),
                    match_education(resume_data, job_data))

\* --------------------------------------------------------------- scorer

\* Config.SEMANTIC_WEIGHT, in tenths
SEMANTIC_WEIGHT == 6

\* Config.KEYWORD_WEIGHT, in tenths
KEYWORD_WEIGHT == 4

\* Config.HIGH_RELEVANCE_THRESHOLD, in points
HIGH_RELEVANCE_THRESHOLD == 75

\* Config.MEDIUM_RELEVANCE_THRESHOLD, in points
MEDIUM_RELEVANCE_THRESHOLD == 50

\* RelevanceScorer.__init__ under the repository's Config
DefaultScorer ==
  [semantic_weight |-> SEMANTIC_WEIGHT,
   keyword_weight |-> KEYWORD_WEIGHT,
   high_threshold |-> HIGH_RELEVANCE_THRESHOLD * PointScale,
   medium_threshold |-> MEDIUM_RELEVANCE_THRESHOLD * PointScale]

\* match_results.get(name, {}).get(...) raises AttributeError: the section
\* is present and None
SectionRaises(match_results, name) ==
  HasKey(match_results, name) /\ IsNone(match_results[name])

\* match_results.get(name, {}).get(field, default)
Field(match_results, name, field, default) ==
  Get(Get(match_results, name, EmptyDict), field, default)

\* calculate_keyword_score reading its sections as match_results[name]: the
\* KeyError for an absent section is caught and the method returns 0.0
calculate_keyword_score_indexed(match_results) ==
  IF \E name \in {"exact_skill_match", "fuzzy_skill_match", "bm25_match"} :
       ~HasKey(match_results, name) \/ IsNone(match_results[name])
  THEN 0
  ELSE Min(RoundDiv(Get(match_results.exact_skill_match, "match_percentage", 0) * 5
                      + Get(match_results.fuzzy_skill_match,
                            "fuzzy_match_percentage", 0) * 3
                      + Get(match_results.bm25_match, "normalized_score", 0) * 2,
                    10),
           Hundred)

\* RelevanceScorer.calculate_keyword_score
calculate_keyword_score(match_results) ==
  IF \/ SectionRaises(match_results, "exact_skill_match")
     \/ SectionRaises(match_results, "fuzzy_skill_match")
     \/ SectionRaises(match_results, "bm25_match")
  THEN 0
  ELSE
    LET exact_skill_score ==
          Field(match_results, "exact_skill_match", "match_percentage", 0)
        fuzzy_skill_score ==
          Field(match_results, "fuzzy_skill_match", "fuzzy_match_percentage", 0)
        bm25_score == Field(match_results, "bm25_match", "normalized_score", 0)
        keyword_score ==
          RoundDiv(exact_skill_score * 5 + fuzzy_skill_score * 3 + bm25_score * 2, 10)
    IN  Min(keyword_score, Hundred)

\* calculate_semantic_score with the test "if embedding_similarity:", for
\* which the value 0.0 is as good as None
calculate_semantic_score_if_truthy(match_results, embedding_similarity) ==
  IF SectionRaises(match_results, "tfidf_match") THEN 0
  ELSE IF ~IsNone(embedding_similarity) /\ embedding_similarity.value # 0
  THEN Min(RoundDiv(Field(match_results, "tfidf_match", "similarity_percentage", 0) * 4
                      + embedding_similarity.value * 6, 10),
           Hundred)
  ELSE Min(Field(match_results, "tfidf_match", "similarity_percentage", 0), Hundred)

\* RelevanceScorer.calculate_semantic_score; embedding_similarity is PyNone
\* or [value |-> units]
calculate_semantic_score(match_results, embedding_similarity) ==
  IF SectionRaises(match_results, "tfidf_match") THEN 0
  ELSE
    LET tfidf_score ==
          Field(match_results, "tfidf_match", "similarity_percentage", 0)
        semantic_score ==
          IF ~IsNone(embedding_similarity)
          THEN RoundDiv(tfidf_score * 4 + embedding_similarity.value * 6, 10)
          ELSE tfidf_score
    IN  Min(semantic_score, Hundred)

\* calculate_weighted_score without min(weighted_score, 100.0)
calculate_weighted_score_uncapped(self, keyword_score, semantic_score) ==
  RoundDiv(semantic_score * self.semantic_weight
             + keyword_score * self.keyword_weight, 10)

\* RelevanceScorer.calculate_weighted_score
calculate_weighted_score(self, keyword_score, semantic_score) ==
  LET weighted_score ==
        RoundDiv(semantic_score * self.semantic_weight
                   + keyword_score * self.keyword_weight, 10)
  IN  Min(weighted_score, Hundred)

\* calculate_bonus_scores with the skill bonus from 80 on:
\* exact_match.get('match_percentage', 0) >= 80
calculate_bonus_scores_from_80(match_results) ==
  IF \/ SectionRaises(match_results, "experience_match")
     \/ SectionRaises(match_results, "education_match")
     \/ SectionRaises(match_results, "exact_skill_match")
  THEN 0
  ELSE Min((IF Field(match_results, "experience_match", "has_experience", FALSE)
            THEN 5 * PointScale ELSE 0)
           + (IF Field(match_results, "education_match", "has_degree", FALSE)
              THEN 3 * PointScale ELSE 0)
           + (IF Field(match_results, "exact_skill_match", "match_percentage", 0)
                   >= 80 * PointScale
              THEN 7 * PointScale ELSE 0),
           15 * PointScale)

\* calculate_bonus_scores with the skill bonus for a match_percentage
\* below 80 instead of above it
calculate_bonus_scores_below_80(match_results) ==
  IF \/ SectionRaises(match_results, "experience_match")
     \/ SectionRaises(match_results, "education_match")
     \/ SectionRaises(match_results, "exact_skill_match")
  THEN 0
  ELSE Min((IF Field(match_results, "experience_match", "has_experience", FALSE)
            THEN 5 * PointScale ELSE 0)
           + (IF Field(match_results, "education_match", "has_degree", FALSE)
              THEN 3 * PointScale ELSE 0)
           + (IF Field(match_results, "exact_skill_match", "match_percentage", 0)
                   < 80 * PointScale
              THEN 7 * PointScale ELSE 0),
           15 * PointScale)

\* RelevanceScorer.calculate_bonus_scores
calculate_bonus_scores(match_results) ==
  IF \/ SectionRaises(match_results, "experience_match")
     \/ SectionRaises(match_results, "education_match")
     \/ SectionRaises(match_results, "exact_skill_match")
  THEN 0
  ELSE
    LET experience ==
          IF Field(match_results, "experience_match", "has_experience", FALSE)
          THEN 5 * PointScale ELSE 0
        education ==
          IF Field(match_results, "education_match", "has_degree", FALSE)
          THEN 3 * PointScale ELSE 0
        skills ==
          IF Field(match_results, "exact_skill_match", "match_percentage", 0)
               > 80 * PointScale
          THEN 7 * PointScale ELSE 0
    IN  Min(experience + education + skills, 15 * PointScale)

\* RelevanceScorer.determine_verdict
determine_verdict(self, final_score) ==
  IF final_score >= self.high_threshold THEN "High"
  ELSE IF final_score >= self.medium_threshold THEN "Medium"
  ELSE "Low"

\* RelevanceScorer.calculate_comprehensive_score.  No statement of its try
\* block raises for a mapping match_results: the four sub-score methods
\* catch their own exceptions, and min, round and the comparisons of
\* determine_verdict act on floats; the except branch returns
\* [final_score |-> 0, verdict |-> "Low", error |-> str(e)].
calculate_comprehensive_score(self, match_results, embedding_similarity) ==
  LET keyword_score == calculate_keyword_score(match_results)
      semantic_score == calculate_semantic_score(match_results, embedding_similarity)
      bonus_score == calculate_bonus_scores(match_results)
      base_weighted_score == calculate_weighted_score(self, keyword_score, semantic_score)
      final_score == Min(base_weighted_score + bonus_score, Hundred)
      verdict == determine_verdict(self, final_score)
  IN  [final_score |-> Round2(final_score),
       verdict |-> verdict,
       score_breakdown |->
         [keyword_score |-> Round2(keyword_score),
          semantic_score |-> Round2(semantic_score),
          base_weighted_score |-> Round2(base_weighted_score),
          bonus_score |-> Round2(bonus_score),
          weights_used |->
            [semantic_weight |-> self.semantic_weight,
             keyword_weight |-> self.keyword_weight]],
       thresholds |->
         [high_threshold |-> self.high_threshold,
          medium_threshold |-> self.medium_threshold]]

\* generate_missing_elements, were it to take the skills off the report's
\* own missing_skills list as it copies them
generate_missing_elements_taking(match_results) ==
  IF SectionRaises(match_results, "exact_skill_match")
    THEN [missing_elements |->
            [skills |-> <<>>, certifications |-> <<>>, projects |-> <<>>,
             experience |-> <<>>],
          match_results |-> match_results]
    ELSE [missing_elements |->
            [skills |->
               Take(Field(match_results, "exact_skill_match", "missing_skills", <<>>), 10),
             certifications |->
               <<"AWS Certification", "Google Cloud Certification",
                 "Project Management Certification">>,
             projects |->
               <<"End-to-end web application project",
                 "Machine learning project with real data",
                 "Mobile application development">>,
             experience |->
               <<"Industry-specific experience", "Leadership experience",
                 "Team collaboration experience">>],
          match_results |->
            IF /\ HasKey(match_results, "exact_skill_match")
               /\ HasKey(match_results.exact_skill_match, "missing_skills")
              THEN [match_results EXCEPT !.exact_skill_match.missing_skills = <<>>]
              ELSE match_results]

\* RelevanceScorer.generate_missing_elements: the dict it returns, and
\* match_results as the call leaves it. missing_skills[:10] is a new list;
\* the method assigns only to keys of its own missing_elements.
generate_missing_elements(match_results) ==
  IF SectionRaises(match_results, "exact_skill_match")
    THEN [missing_elements |->
            [skills |-> <<>>, certifications |-> <<>>, projects |-> <<>>,
             experience |-> <<>>],
          match_results |-> match_results]
    ELSE [missing_elements |->
            [skills |->
               Take(Field(match_results, "exact_skill_match", "missing_skills", <<>>), 10),
             certifications |->
               <<"AWS Certification", "Google Cloud Certification",
                 "Project Management Certification">>,
             projects |->
               <<"End-to-end web application project",
                 "Machine learning project with real data",
                 "Mobile application development">>,
             experience |->
               <<"Industry-specific experience", "Leadership experience",
                 "Team collaboration experience">>],
          match_results |-> match_results]

\* RelevanceScorer.generate_skill_gap_analysis: the dict it returns, and
\* match_results as the call leaves it. matched_skills is the report's own
\* list, handed out and not written to; the other values are new.
generate_skill_gap_analysis(match_results) ==
  IF \/ SectionRaises(match_results, "exact_skill_match")
     \/ SectionRaises(match_results, "fuzzy_skill_match")
    THEN [skill_analysis |-> EmptyDict, match_results |-> match_results]
    ELSE
      LET missing_skills ==
            Field(match_results, "exact_skill_match", "missing_skills", <<>>)
          fuzzy_matched ==
            Field(match_results, "fuzzy_skill_match", "matched_skills", <<>>)
      IN  [skill_analysis |->
             [matched_skills |->
                Field(match_results, "exact_skill_match", "matched_skills", <<>>),
              partially_matched_skills |->
                LET partial == SelectSeq(fuzzy_matched, LAMBDA match : match.similarity < 90)
                IN  [i \in 1..Len(partial) |-> partial[i].job_skill],
              missing_critical_skills |-> Take(missing_skills, 5),
              skill_match_percentage |->
                Field(match_results, "exact_skill_match", "match_percentage", 0),
              skill_importance |->
                [skill \in {missing_skills[i] : i \in 1..Min(Len(missing_skills), 10)} |->
                   LET last == CHOOSE i \in 1..Min(Len(missing_skills), 10) :
                                 /\ missing_skills[i] = skill
                                 /\ \A j \in (i + 1)..Min(Len(missing_skills), 10) :
                                      missing_skills[j] # skill
                   IN  IF last - 1 < 3 THEN "High"
                       ELSE IF last - 1 < 6 THEN "Medium" ELSE "Low"]],
           match_results |-> match_results]

\* ------------------------------------------------------------- feedback

\* A feedback text is a sequence of pieces, each a string of the source, a
\* number written out, or one character of a service answer; "" is <<>>.

\* ', '.join(skills): the skills with ", " between them
RECURSIVE Join(_)
Join(skills) ==
  IF skills = <<>> THEN <<>>
  ELSE IF Len(skills) = 1 THEN Head(skills)
  ELSE Head(skills) \o <<", ">> \o Join(Tail(skills))

\* FeedbackGenerator._generate_fallback_feedback
generate_fallback_feedback(scoring_results, match_results) ==
  LET score == Get(scoring_results, "final_score", 0)
      missing_skills == Field(match_results, "exact_skill_match", "missing_skills", <<>>)
      matched_skills == Field(match_results, "exact_skill_match", "matched_skills", <<>>)
  IN  IF score >= 75 * PointScale
      THEN <<"Excellent match! Your resume shows strong alignment with the job requirements. ",
             "You have ", ToString(Len(matched_skills)), " key skills that match perfectly. ">>
           \o (IF Len(missing_skills) > 0
               THEN <<"To further strengthen your profile, consider gaining experience in: ">>
                    \o Join(Take(missing_skills, 3)) \o <<".">>
               ELSE <<>>)
      ELSE IF score >= 50 * PointScale
      THEN <<"Good foundation! Your resume has moderate alignment with the job requirements. ",
             "You match ", ToString(Len(matched_skills)), " key skills. ",
             "Focus on developing these critical skills: ">>
           \o Join(Take(missing_skills, 5))
           \o <<". ", "Consider adding relevant projects or certifications in these areas.">>
      ELSE <<"Significant gaps identified. Your resume needs substantial improvements for this role. ",
             "Priority skills to develop: ">>
           \o Join(Take(missing_skills, 5))
           \o <<". ",
                "Consider taking online courses, building projects, or gaining certifications in these areas. ",
                "Focus on the most in-demand skills first.">>

RECURSIVE LStrip(_)
LStrip(s) == IF s # <<>> /\ Head(s) = " " THEN LStrip(Tail(s)) ELSE s

RECURSIVE RStrip(_)
RStrip(s) ==
  IF s # <<>> /\ s[Len(s)] = " " THEN RStrip(SubSeq(s, 1, Len(s) - 1)) ELSE s

\* str.strip() on the characters of a service answer
Strip(s) == RStrip(LStrip(s))

\* ', '.join(...) in _create_feedback_prompt raises TypeError: one of the
\* skill lists the prompt names holds an element that is not a str
PromptRaises(resume_data, job_data) ==
  ExactRaises(Get(resume_data, "skills", <<>>),
              Get(job_data, "required_skills", <<>>)
                \o Get(job_data, "preferred_skills", <<>>))

\* generate_personalized_feedback whose except branch returns a fixed
\* notice in place of the fallback text
generate_personalized_feedback_notice(self_llm, resume_data, job_data, scoring_results, match_results, outcome) ==
  IF self_llm = "none"
  THEN generate_fallback_feedback(scoring_results, match_results)
  ELSE IF PromptRaises(resume_data, job_data) \/ HasKey(outcome, "raises")
  THEN <<"Feedback is not available at the moment.">>
  ELSE Strip(outcome.content)

\* FeedbackGenerator.generate_personalized_feedback.  self_llm is the
\* generator's llm attribute ("none" or "client"); outcome is what
\* self.llm.invoke does when it is called: [raises |-> TRUE] or
\* [content |-> the characters of response.content]
generate_personalized_feedback(self_llm, resume_data, job_data, scoring_results, match_results, outcome) ==
  IF self_llm = "none"
  THEN generate_fallback_feedback(scoring_results, match_results)
  ELSE IF PromptRaises(resume_data, job_data) \/ HasKey(outcome, "raises")
  THEN generate_fallback_feedback(scoring_results, match_results)
  ELSE Strip(outcome.content)

\* FeedbackGenerator.__init__: the llm attribute, given whether
\* GOOGLE_API_KEY is set and whether the client's constructor raises
FeedbackGeneratorInit(api_key, init_raises) ==
  IF api_key /\ ~init_raises THEN "client" ELSE "none"

\* -------------------------------------- utils/similarity.py: the methods

\* SimilarityCalculator.tokenize_text: preprocess_text replaces a
\* punctuation mark by a space and lower-cases, split() gives the words
RECURSIVE tokenize_text(_)
tokenize_text(text) ==
  IF text = <<>> THEN <<>>
  ELSE IF Head(text) = "!" THEN tokenize_text(Tail(text))
  ELSE <<LowerWord(Head(text))>> \o tokenize_text(Tail(text))

\* max_df of the calculator's TfidfVectorizer, in hundredths
max_df == 95

\* CountVectorizer._limit_features for two documents: a term stays when
\* its document frequency is at most max_df * 2
LimitFeatures(cv) ==
  LET kept == SelectSeq([k \in 1..Len(cv.vocabulary) |-> k],
                        LAMBDA k : Cardinality({d \in 1..2 : cv.X[d][k] > 0}) * 100
                                     <= max_df * 2)
  IN  [vocabulary |-> [i \in 1..Len(kept) |-> cv.vocabulary[kept[i]]],
       X |-> [d \in 1..2 |-> [i \in 1..Len(kept) |-> cv.X[d][kept[i]]]]]

\* top_n of _get_top_features
top_n == 10

\* lines 56-73 of calculate_tfidf_similarity on the counts X that
\* fit_transform kept, feature_names being the vocabulary; a feature's
\* score is its entry of the l2-normalised row, in 1/100
SimTfidfResult(X, feature_names) ==
  LET W == [d \in 1..2 |-> [k \in 1..Len(X[d]) |-> X[d][k] * FitIdf(X)[k]]]
      Norm2(d) == SumSeq([k \in 1..Len(W[d]) |-> W[d][k] * W[d][k]])
      Scores(d) ==
        [k \in 1..Len(W[d]) |->
           IF Norm2(d) = 0 THEN 0
           ELSE Isqrt((W[d][k] * W[d][k] * 10000) \div Norm2(d))]
      TopOf(scores) ==
        LET top_indices == Take(ArgsortDesc(scores, 1..Len(scores)), top_n)
            positive == SelectSeq(top_indices, LAMBDA idx : scores[idx] > 0)
        IN  [i \in 1..Len(positive) |->
               <<feature_names[positive[i]], scores[positive[i]]>>]
  IN  [similarity_score |-> Cosine(W),
       similarity_percentage |-> Cosine(W) * CosineUnit,
       text1_top_features |-> TopOf(Scores(1)),
       text2_top_features |-> TopOf(Scores(2)),
       method |-> "tfidf_cosine"]

\* SimilarityCalculator.calculate_tfidf_similarity.  fit_transform fits the
\* vectorizer anew from the corpus of the call; it raises ValueError when
\* the documents hold no term, and when no term is left after max_df
calculate_tfidf_similarity(text1, text2) ==
  LET cv == CountVocab(<<tokenize_text(text1), tokenize_text(text2)>>)
  IN  IF Len(cv.vocabulary) = 0
      THEN [similarity_score |-> 0, similarity_percentage |-> 0,
            error |-> "empty vocabulary; perhaps the documents only contain stop words"]
      ELSE IF Len(LimitFeatures(cv).vocabulary) = 0
      THEN [similarity_score |-> 0, similarity_percentage |-> 0,
            error |-> "After pruning, no terms remain. Try a lower min_df or a higher max_df."]
      ELSE SimTfidfResult(LimitFeatures(cv).X, LimitFeatures(cv).vocabulary)

\* SimilarityCalculator.calculate_bm25_similarity; normalized_score is held
\* in 1/Hundred, so its number is that of similarity_percentage
calculate_bm25_similarity(text1, text2) ==
  LET tokens1 == tokenize_text(text1)
      tokens2 == tokenize_text(text2)
      score1_vs_2 == BM25Score(tokens2, tokens1, tokens2)
      score2_vs_1 == BM25Score(tokens1, tokens2, tokens1)
      avg_score == RoundDiv(score1_vs_2 + score2_vs_1, 2)
  IN  IF Len(tokens1) + Len(tokens2) = 0
      THEN \* BM25Okapi divides by the number of distinct words
           [bm25_score |-> 0, normalized_score |-> 0,
            similarity_percentage |-> 0, error |-> "division by zero"]
      ELSE [bm25_score |-> avg_score,
            normalized_score |-> Min(avg_score * 10, Hundred),
            similarity_percentage |-> Min(avg_score * 10, Hundred),
            score1_vs_2 |-> score1_vs_2,
            score2_vs_1 |-> score2_vs_1,
            method |-> "bm25"]

\* calculate_jaccard_similarity with two empty token sets counted as equal:
\* jaccard_score = intersection / union if union > 0 else 1.0
calculate_jaccard_similarity_empty_equal(text1, text2) ==
  LET tokens1 == WordsOf(tokenize_text(text1))
      tokens2 == WordsOf(tokenize_text(text2))
      intersection == Cardinality(tokens1 \cap tokens2)
      union == Cardinality(tokens1 \cup tokens2)
  IN  [jaccard_score |->
         IF union > 0 THEN RoundDiv(intersection * PointScale, union) ELSE PointScale,
       similarity_percentage |->
         IF union > 0 THEN RoundDiv(intersection * Hundred, union) ELSE Hundred,
       intersection_size |-> intersection,
       union_size |-> union,
       common_tokens |-> tokens1 \cap tokens2,
       unique_to_text1 |-> tokens1 \ tokens2,
       unique_to_text2 |-> tokens2 \ tokens1,
       method |-> "jaccard"]

\* SimilarityCalculator.calculate_jaccard_similarity; the token lists are
\* held as sets, their order being that of a Python set
calculate_jaccard_similarity(text1, text2) ==
  LET tokens1 == WordsOf(tokenize_text(text1))
      tokens2 == WordsOf(tokenize_text(text2))
      intersection == Cardinality(tokens1 \cap tokens2)
      union == Cardinality(tokens1 \cup tokens2)
  IN  [jaccard_score |-> IF union > 0 THEN RoundDiv(intersection * PointScale, union) ELSE 0,
       similarity_percentage |->
         IF union > 0 THEN RoundDiv(intersection * Hundred, union) ELSE 0,
       intersection_size |-> intersection,
       union_size |-> union,
       common_tokens |-> tokens1 \cap tokens2,
       unique_to_text1 |-> tokens1 \ tokens2,
       unique_to_text2 |-> tokens2 \ tokens1,
       method |-> "jaccard"]

\* SimilarityCalculator.calculate_word_overlap
calculate_word_overlap(text1, text2) ==
  LET set1 == WordsOf(tokenize_text(text1))
      set2 == WordsOf(tokenize_text(text2))
      overlap == Cardinality(set1 \cap set2)
      len1 == Cardinality(set1)
      len2 == Cardinality(set2)
  IN  [word_overlap_count |-> overlap,
       overlap_ratio_text1 |-> IF len1 > 0 THEN RoundDiv(overlap * PointScale, len1) ELSE 0,
       overlap_ratio_text2 |-> IF len2 > 0 THEN RoundDiv(overlap * PointScale, len2) ELSE 0,
       similarity_percentage |->
         IF len1 > 0 /\ len2 > 0
         THEN RoundDiv(overlap * (len1 + len2) * Hundred, 2 * len1 * len2)
         ELSE 0,
       text1_unique_words |-> len1 - overlap,
       text2_unique_words |-> len2 - overlap,
       method |-> "word_overlap"]

\* sum(similarities) that a zero TF-IDF percentage voids
weighted_similarity_voided(tfidf, bm25, jaccard, word_overlap) ==
  IF tfidf = 0
    THEN 0
    ELSE RoundDiv(4 * tfidf + 3 * bm25 + 2 * jaccard + word_overlap, 10)

\* sum(similarities) with the weights of another method order: 0.1 for
\* TF-IDF and 0.4 for the word overlap
weighted_similarity_reversed(tfidf, bm25, jaccard, word_overlap) ==
  RoundDiv(tfidf + 2 * bm25 + 3 * jaccard + 4 * word_overlap, 10)

\* lines 208-215 of calculate_comprehensive_similarity: the sum of the
\* four percentages times 0.4, 0.3, 0.2 and 0.1
weighted_similarity(tfidf, bm25, jaccard, word_overlap) ==
  RoundDiv(4 * tfidf + 3 * bm25 + 2 * jaccard + word_overlap, 10)

\* SimilarityCalculator.calculate_comprehensive_similarity
calculate_comprehensive_similarity(text1, text2) ==
  [comprehensive_similarity |->
     [weighted_average |->
        weighted_similarity(
          calculate_tfidf_similarity(text1, text2).similarity_percentage,
          calculate_bm25_similarity(text1, text2).similarity_percentage,
          calculate_jaccard_similarity(text1, text2).similarity_percentage,
          calculate_word_overlap(text1, text2).similarity_percentage),
      individual_scores |->
        [tfidf |-> calculate_tfidf_similarity(text1, text2).similarity_percentage,
         bm25 |-> calculate_bm25_similarity(text1, text2).similarity_percentage,
         jaccard |-> calculate_jaccard_similarity(text1, text2).similarity_percentage,
         word_overlap |-> calculate_word_overlap(text1, text2).similarity_percentage]],
   detailed_results |->
     [tfidf |-> calculate_tfidf_similarity(text1, text2),
      bm25 |-> calculate_bm25_similarity(text1, text2),
      jaccard |-> calculate_jaccard_similarity(text1, text2),
      word_overlap |-> calculate_word_overlap(text1, text2)],
   text_statistics |->
     [text1_word_count |-> Len(tokenize_text(text1)),
      text2_word_count |-> Len(tokenize_text(text2)),
      text1_unique_words |-> Cardinality(WordsOf(tokenize_text(text1))),
      text2_unique_words |-> Cardinality(WordsOf(tokenize_text(text2)))]]

\* ---------------------------------------------------------------- state

VARIABLES
  scorer,            \* the RelevanceScorer of the routes: weights, thresholds
  tfidf_vectorizer,  \* matcher.tfidf_vectorizer: vocabulary_ and idf_
  llm,               \* feedback_generator.llm: "none" or "client"
  calls,             \* the evaluations run so far, oldest first
  threads,           \* the request threads inside comprehensive_match
  skill_call,        \* the last direct call of the two skill matchers
  score_call,        \* the last direct call of calculate_comprehensive_score
  feedback_call,     \* the last call of generate_personalized_feedback
  sim_call,          \* the last call of a SimilarityCalculator
  evaluations,       \* the rows of the evaluations table, oldest first
  db                 \* the rows of the resumes and jobs tables, by id

vars == <<scorer, tfidf_vectorizer, llm, calls, threads, skill_call,
          score_call, feedback_call, sim_call, evaluations, db>>

\* a TfidfVectorizer that has not been fitted
Unfitted == [vocabulary_ |-> <<>>, idf_ |-> <<>>]

NoCall == [called |-> FALSE]

\* ---- the inputs of the model

py == <<"p", "y">>

Py == <<"P", "y">>

sql == <<"s", "q", "l">>

aws == <<"a", "w", "s">>

\* the skills of the model's skill lists
Skills == {py, Py, sql, aws}

\* longest resume skill list, longest job skill list of a direct call
MaxResumeSkills == 2

MaxJobSkills == 3

RECURSIVE SeqsUpTo(_, _)
\* the sequences over S of length at most n
SeqsUpTo(S, n) ==
  IF n = 0 THEN {<<>>}
  ELSE LET shorter == SeqsUpTo(S, n - 1)
       IN  shorter \cup {Append(q, x) : q \in shorter, x \in S}

\* the values of fuzzy_skill_match's threshold parameter
Thresholds == {0, DefaultFuzzyThreshold, 100, 101}

\* resume mappings, as parse_resume and the routes build them
Resumes ==
  { [skills |-> <<py, sql>>, clean_text |-> <<"python", "sql">>,
     experience |-> <<[title |-> "engineer", years |-> [py_str |-> <<"5">>]]>>,
     education |-> <<[degree |-> "btech"]>>],
    [skills |-> <<>>, clean_text |-> <<"the">>,
     experience |-> <<>>, education |-> <<>>],
    [skills |-> <<Py>>, clean_text |-> <<"python", "the">>,
     experience |-> <<[title |-> "intern", years |-> PyNone]>>,
     education |-> <<>>],
    [clean_text |-> <<"SQL">>] }

\* job mappings, as parse_job_description and the routes build them
Jobs ==
  { [required_skills |-> <<py, sql, aws>>, preferred_skills |-> <<>>,
     clean_text |-> <<"python", "sql">>],
    [required_skills |-> <<>>, preferred_skills |-> <<sql>>,
     clean_text |-> <<"the">>],
    [required_skills |-> <<py, NotAString>>, preferred_skills |-> <<>>,
     clean_text |-> <<"sql">>],
    [required_skills |-> <<Py>>, preferred_skills |-> <<py>>,
     clean_text |-> <<"the", "python">>] }

\* the scorer configurations: the repository's, one whose weights do not
\* sum to 1, one with other thresholds
Scorers ==
  { DefaultScorer,
    [DefaultScorer EXCEPT !.semantic_weight = 10, !.keyword_weight = 10],
    [DefaultScorer EXCEPT !.high_threshold = 80 * PointScale,
                          !.medium_threshold = 40 * PointScale] }

\* the evaluations one behaviour runs
MaxCalls == 3

\* ---- the evaluation of the routes, one request at a time

\* lines 290-310 of _evaluate_against_jobs for the MatchReport and the
\* vectorizer in m: the record of the evaluation, and the Evaluation row
\* that the route adds to the session and commits
Stored(resume_data, job_data, m, scoring_results) ==
  /\ tfidf_vectorizer' = m.vec
  /\ calls' = Append(calls,
       [resume_data |-> resume_data,
        job_data |-> job_data,
        match_results |-> m.report,
        scoring_results |-> scoring_results])
  /\ evaluations' = Append(evaluations,
       [relevance_score |-> scoring_results.final_score,
        keyword_score |-> scoring_results.score_breakdown.keyword_score,
        semantic_score |-> scoring_results.score_breakdown.semantic_score,
        verdict |-> scoring_results.verdict,
        missing_skills |->
          Field(m.report, "exact_skill_match", "missing_skills", <<>>),
        matched_skills |->
          Field(m.report, "exact_skill_match", "matched_skills", <<>>)])

\* scoring_results = scorer.calculate_comprehensive_score(match_results)
\* on the result m of comprehensive_match, and what the route stores
Evaluated(resume_data, job_data, m) ==
  Stored(resume_data, job_data, m,
         calculate_comprehensive_score(scorer, m.report, PyNone))

\* match_results = matcher.comprehensive_match(resume_data, job_data) and
\* the scoring that follows it in the routes
Evaluate(resume_data, job_data) ==
  /\ Len(calls) < MaxCalls
  /\ Evaluated(resume_data, job_data,
               comprehensive_match(tfidf_vectorizer, resume_data, job_data))
  /\ UNCHANGED <<scorer, llm, threads, skill_call, score_call, feedback_call,
                 sim_call, db>>

\* the module-level matcher, scorer and feedback_generator of the routes,
\* with no GOOGLE_API_KEY
Init ==
  /\ scorer = DefaultScorer
  /\ tfidf_vectorizer = Unfitted
  /\ llm = "none"
  /\ calls = <<>>
  /\ threads = <<>>
  /\ skill_call = NoCall
  /\ score_call = NoCall
  /\ feedback_call = NoCall
  /\ sim_call = NoCall
  /\ evaluations = <<>>
  /\ db = [resumes |-> <<>>, jobs |-> <<>>]

Next == \E resume_data \in Resumes, job_data \in Jobs :
          Evaluate(resume_data, job_data)

Spec == Init /\ [][Next]_vars

\* ---- direct calls of exact_skill_match and fuzzy_skill_match

\* the arguments of one direct call
SkillInputs ==
  [called : {FALSE},
   resume_skills : SeqsUpTo(Skills, MaxResumeSkills),
   job_skills : SeqsUpTo(Skills, MaxJobSkills),
   threshold : Thresholds]

\* both matchers on the same two lists
SkillsCall ==
  /\ ~skill_call.called
  /\ skill_call' =
       [called |-> TRUE,
        resume_skills |-> skill_call.resume_skills,
        job_skills |-> skill_call.job_skills,
        threshold |-> skill_call.threshold,
        exact |-> exact_skill_match(skill_call.resume_skills,
                                    skill_call.job_skills),
        fuzzy |-> fuzzy_skill_match(skill_call.resume_skills,
                                    skill_call.job_skills,
                                    skill_call.threshold)]
  /\ UNCHANGED <<scorer, tfidf_vectorizer, llm, calls, threads, score_call,
                 feedback_call, sim_call, evaluations, db>>

InitSkills ==
  /\ scorer = DefaultScorer
  /\ tfidf_vectorizer = Unfitted
  /\ llm = "none"
  /\ calls = <<>>
  /\ threads = <<>>
  /\ skill_call \in SkillInputs
  /\ score_call = NoCall
  /\ feedback_call = NoCall
  /\ sim_call = NoCall
  /\ evaluations = <<>>
  /\ db = [resumes |-> <<>>, jobs |-> <<>>]

NextSkills == SkillsCall

SpecSkills == InitSkills /\ [][NextSkills]_vars

\* ---- direct calls of calculate_comprehensive_score

\* a section the MatchReport does not hold
Absent == [absent |-> TRUE]

\* the mapping with the section under its name, or without it
Section(name, v) == IF v = Absent THEN EmptyDict ELSE (name :> v)

ExactSections ==
  { Absent, PyNone,
    [match_percentage |-> 0],
    [match_percentage |-> Percentage(2, 3)],
    [match_percentage |-> Percentage(4, 5)],
    [match_percentage |-> Hundred],
    [matched_skills |-> <<>>] }

FuzzySections ==
  { Absent,
    [fuzzy_match_percentage |-> 0],
    [fuzzy_match_percentage |-> Hundred] }

\* normalized_score values: 0, 50, and -4.02, which keyword_match_bm25
\* returns for the texts "the" and "the"
Bm25Sections ==
  { Absent,
    [normalized_score |-> 0],
    [normalized_score |-> 50 * PointScale],
    [normalized_score |-> keyword_match_bm25(<<"the">>, <<"the">>).normalized_score] }

\* similarity_percentage values: 46.66, 50 and 100
TfidfSections ==
  { Absent, PyNone,
    [similarity_percentage |-> 4666 * Cent],
    [similarity_percentage |-> 50 * PointScale],
    [similarity_percentage |-> Hundred] }

ExperienceSections == {Absent, [has_experience |-> TRUE]}

EducationSections == {Absent, [has_degree |-> TRUE]}

\* MatchReports: complete, partial and empty, and with a section that is None
MatchReports ==
  { Section("exact_skill_match", e) @@ Section("fuzzy_skill_match", f)
      @@ Section("bm25_match", b) @@ Section("tfidf_match", t)
      @@ Section("experience_match", x) @@ Section("education_match", d) :
      e \in ExactSections, f \in FuzzySections, b \in Bm25Sections,
      t \in TfidfSections, x \in ExperienceSections, d \in EducationSections }

\* embedding_similarity: None, or a value calculate_similarity returns
Embeddings == {PyNone, [value |-> 0], [value |-> Hundred]}

\* the arguments of one direct call
ScoreInputs ==
  [called : {FALSE},
   match_results : MatchReports,
   embedding_similarity : Embeddings]

ScoreCall ==
  /\ ~score_call.called
  /\ score_call' =
       [called |-> TRUE,
        match_results |-> score_call.match_results,
        embedding_similarity |-> score_call.embedding_similarity,
        result |-> calculate_comprehensive_score(
                     scorer, score_call.match_results,
                     score_call.embedding_similarity)]
  /\ UNCHANGED <<scorer, tfidf_vectorizer, llm, calls, threads, skill_call,
                 feedback_call, sim_call, evaluations, db>>

InitScorer ==
  /\ scorer \in Scorers
  /\ tfidf_vectorizer = Unfitted
  /\ llm = "none"
  /\ calls = <<>>
  /\ threads = <<>>
  /\ skill_call = NoCall
  /\ score_call \in ScoreInputs
  /\ feedback_call = NoCall
  /\ sim_call = NoCall
  /\ evaluations = <<>>
  /\ db = [resumes |-> <<>>, jobs |-> <<>>]

NextScorer == ScoreCall

SpecScorer == InitScorer /\ [][NextScorer]_vars

\* ---- comprehensive_match on the routes' matcher from several request
\* ---- threads: the steps of tfidf_similarity on the shared vectorizer

\* the request threads of the server
NumThreads == 2

\* a request thread about to call fit_transform
ThreadStart(resume_data, job_data) ==
  [pc |-> "fit_transform", resume_data |-> resume_data, job_data |-> job_data,
   X |-> <<>>, idf |-> <<>>, report |-> EmptyDict]

\* the thread's comprehensive_match returns: the report with tfidf as the
\* result of its tfidf_similarity
Return(th, tfidf) ==
  [th EXCEPT
     !.pc = "done",
     !.report =
       MatchReport(
         exact_skill_match(Get(th.resume_data, "skills", <<>>),
                           Get(th.job_data, "required_skills", <<>>)),
         fuzzy_skill_match(Get(th.resume_data, "skills", <<>>),
                           Get(th.job_data, "required_skills", <<>>)
                             \o Get(th.job_data, "preferred_skills", <<>>),
                           DefaultFuzzyThreshold),
         keyword_match_bm25(Get(th.resume_data, "clean_text", <<>>),
                            Get(th.job_data, "clean_text", <<>>)),
         [result |-> tfidf, vec |-> tfidf_vectorizer],
         match_experience(th.resume_data, th.job_data),
         match_education(th.resume_data, th.job_data)).report]

\* the skill matchers raise in the comprehensive_match call of th, a
\* record with the call's resume_data and job_data
SkillMatchRaises(th) ==
  \/ ExactRaises(Get(th.resume_data, "skills", <<>>),
                 Get(th.job_data, "required_skills", <<>>))
  \/ FuzzyRaises(Get(th.resume_data, "skills", <<>>),
                 Get(th.job_data, "required_skills", <<>>)
                   \o Get(th.job_data, "preferred_skills", <<>>))

\* CountVectorizer.fit_transform of thread t, given the counts cv of its
\* texts: vocabulary_ is assigned, the counts stay with the thread
Counted(t, cv) ==
  IF Len(cv.vocabulary) = 0
  THEN /\ threads' = [threads EXCEPT ![t] = Return(@, TfidfError)]
       /\ UNCHANGED tfidf_vectorizer
  ELSE /\ tfidf_vectorizer' = [tfidf_vectorizer EXCEPT !.vocabulary_ = cv.vocabulary]
       /\ threads' = [threads EXCEPT ![t].pc = "fit_idf", ![t].X = cv.X]

\* comprehensive_match up to the first half of fit_transform
CountStep(t) ==
  /\ threads[t].pc = "fit_transform"
  /\ IF SkillMatchRaises(threads[t])
     THEN /\ threads' = [threads EXCEPT ![t].pc = "done",
                                        ![t].report = [error |-> LowerError]]
          /\ UNCHANGED tfidf_vectorizer
     ELSE Counted(t, CountVocab(<<Get(threads[t].resume_data, "clean_text", <<>>),
                                  Get(threads[t].job_data, "clean_text", <<>>)>>))
  /\ UNCHANGED <<scorer, llm, calls, skill_call, score_call, feedback_call,
                 sim_call, evaluations, db>>

\* TfidfTransformer.fit inside fit_transform: idf_ is assigned
FitIdfStep(t) ==
  /\ threads[t].pc = "fit_idf"
  /\ tfidf_vectorizer' = [tfidf_vectorizer EXCEPT !.idf_ = FitIdf(threads[t].X)]
  /\ threads' = [threads EXCEPT ![t].pc = "transform"]
  /\ UNCHANGED <<scorer, llm, calls, skill_call, score_call, feedback_call,
                 sim_call, evaluations, db>>

\* TfidfTransformer.transform inside fit_transform: idf_ is read
TransformStep(t) ==
  /\ threads[t].pc = "transform"
  /\ threads' = [threads EXCEPT ![t].pc = "feature_names",
                                ![t].idf = tfidf_vectorizer.idf_]
  /\ UNCHANGED <<scorer, tfidf_vectorizer, llm, calls, skill_call, score_call,
                 feedback_call, sim_call, evaluations, db>>

\* get_feature_names_out reads vocabulary_; the rest of comprehensive_match
FeatureNamesStep(t) ==
  /\ threads[t].pc = "feature_names"
  /\ threads' = [threads EXCEPT ![t] =
       Return(@, TfidfResult(@.X, @.idf, tfidf_vectorizer.vocabulary_))]
  /\ UNCHANGED <<scorer, tfidf_vectorizer, llm, calls, skill_call, score_call,
                 feedback_call, sim_call, evaluations, db>>

InitConcurrent ==
  /\ scorer = DefaultScorer
  /\ tfidf_vectorizer = Unfitted
  /\ llm = "none"
  /\ calls = <<>>
  /\ threads \in [1..NumThreads ->
                    {ThreadStart(r, j) : r \in Resumes, j \in Jobs}]
  /\ skill_call = NoCall
  /\ score_call = NoCall
  /\ feedback_call = NoCall
  /\ sim_call = NoCall
  /\ evaluations = <<>>
  /\ db = [resumes |-> <<>>, jobs |-> <<>>]

NextConcurrent ==
  \E t \in 1..NumThreads :
    \/ CountStep(t)
    \/ FitIdfStep(t)
    \/ TransformStep(t)
    \/ FeatureNamesStep(t)

SpecConcurrent == InitConcurrent /\ [][NextConcurrent]_vars

\* ---- generate_personalized_feedback after an evaluation

\* what self.llm.invoke does: it raises, or it answers with this content
Outcomes ==
  { [raises |-> TRUE],
    [content |-> <<>>],
    [content |-> <<" ">>],
    [content |-> <<" ", "o", "k", " ">>] }

\* the environment of FeedbackGenerator() and the arguments of one call
FeedbackInputs ==
  [called : {FALSE},
   api_key : BOOLEAN,
   init_raises : BOOLEAN,
   resume_data : Resumes,
   job_data : Jobs,
   outcome : Outcomes]

\* the feedback for the evaluation m of the pair, as the routes ask for it
Generated(fc, match_results) ==
  [called |-> TRUE,
   api_key |-> fc.api_key,
   init_raises |-> fc.init_raises,
   resume_data |-> fc.resume_data,
   job_data |-> fc.job_data,
   outcome |-> fc.outcome,
   feedback |->
     generate_personalized_feedback(
       llm, fc.resume_data, fc.job_data,
       calculate_comprehensive_score(scorer, match_results, PyNone),
       match_results, fc.outcome)]

FeedbackCall ==
  /\ ~feedback_call.called
  /\ feedback_call' =
       Generated(feedback_call,
                 comprehensive_match(tfidf_vectorizer, feedback_call.resume_data,
                                     feedback_call.job_data).report)
  /\ UNCHANGED <<scorer, tfidf_vectorizer, llm, calls, threads, skill_call,
                 score_call, sim_call, evaluations, db>>

InitFeedback ==
  /\ scorer = DefaultScorer
  /\ tfidf_vectorizer = Unfitted
  /\ feedback_call \in FeedbackInputs
  /\ sim_call = NoCall
  /\ evaluations = <<>>
  /\ db = [resumes |-> <<>>, jobs |-> <<>>]
  /\ llm = FeedbackGeneratorInit(feedback_call.api_key, feedback_call.init_raises)
  /\ calls = <<>>
  /\ threads = <<>>
  /\ skill_call = NoCall
  /\ score_call = NoCall

NextFeedback == FeedbackCall

SpecFeedback == InitFeedback /\ [][NextFeedback]_vars

\* ---- one evaluation of mappings with keys absent, and one direct call
\* ---- of calculate_comprehensive_score on a MatchReport with sections absent

\* a resume mapping with every key that comprehensive_match reads
FullResume ==
  [skills |-> <<py, sql>>, clean_text |-> <<"python", "sql">>,
   experience |-> <<[title |-> "engineer", years |-> [py_str |-> <<"5">>]]>>,
   education |-> <<[degree |-> "btech"]>>]

\* a job mapping with every key that comprehensive_match reads; sql is both
\* a required and a preferred skill
FullJob ==
  [required_skills |-> <<py, sql, aws>>, preferred_skills |-> <<sql, Py>>,
   clean_text |-> <<"python", "the">>]

\* the mappings that hold a subset of the keys of full
Partial(full) == {[k \in K |-> full[k]] : K \in SUBSET DOMAIN full}

\* the first evaluation of a matcher
EvaluateOnce(resume_data, job_data) ==
  /\ calls = <<>>
  /\ Evaluate(resume_data, job_data)

InitPartial ==
  /\ scorer = DefaultScorer
  /\ tfidf_vectorizer = Unfitted
  /\ llm = "none"
  /\ calls = <<>>
  /\ threads = <<>>
  /\ skill_call = NoCall
  /\ score_call \in
       [called : {FALSE},
        match_results :
          Partial(comprehensive_match(Unfitted, FullResume, FullJob).report),
        embedding_similarity : {PyNone}]
  /\ feedback_call = NoCall
  /\ sim_call = NoCall
  /\ evaluations = <<>>
  /\ db = [resumes |-> <<>>, jobs |-> <<>>]

NextPartial ==
  \/ \E resume_data \in Partial(FullResume), job_data \in Partial(FullJob) :
       EvaluateOnce(resume_data, job_data)
  \/ ScoreCall

SpecPartial == InitPartial /\ [][NextPartial]_vars

\* ---- direct calls of a SimilarityCalculator

\* the longest text of a direct call, in words
MaxTextWords == 2

\* the texts: words, a stop word, an upper-case word, a punctuation mark
Texts == SeqsUpTo({"python", "sql", "the", "SQL", "!"}, MaxTextWords)

\* calculate_comprehensive_similarity(text1, text2), which calls the four
\* methods, on a calculator of its own
SimilarityCall ==
  /\ ~sim_call.called
  /\ sim_call' =
       [called |-> TRUE,
        text1 |-> sim_call.text1,
        text2 |-> sim_call.text2,
        result |-> calculate_comprehensive_similarity(sim_call.text1,
                                                      sim_call.text2)]
  /\ UNCHANGED <<scorer, tfidf_vectorizer, llm, calls, threads, skill_call,
                 score_call, feedback_call, evaluations, db>>

InitSimilarity ==
  /\ scorer = DefaultScorer
  /\ tfidf_vectorizer = Unfitted
  /\ llm = "none"
  /\ calls = <<>>
  /\ threads = <<>>
  /\ skill_call = NoCall
  /\ score_call = NoCall
  /\ feedback_call = NoCall
  /\ sim_call \in [called : {FALSE}, text1 : Texts, text2 : Texts]
  /\ evaluations = <<>>
  /\ db = [resumes |-> <<>>, jobs |-> <<>>]

NextSimilarity == SimilarityCall

SpecSimilarity == InitSimilarity /\ [][NextSimilarity]_vars

\* ---- one call of comprehensive_match on a resume whose experience
\* ---- records differ in their years field

\* the most experience records of a resume
MaxRecords == 2

\* experience records: the years key absent, None, a str that int() reads
\* ('0', '5', '12'), one it rejects ('2.5'), and a negative int
ExperienceRecords ==
  {[title |-> "engineer"]}
    \cup {[title |-> "engineer", years |-> years] :
            years \in {PyNone, [py_str |-> <<"0">>], [py_str |-> <<"5">>],
                       [py_str |-> <<"1", "2">>], [py_str |-> <<"2", ".", "5">>],
                       [py_int |-> 0 - 1]}}

\* matcher.comprehensive_match(resume_data, job_data) on the resume of the call
ExperienceCall ==
  /\ ~skill_call.called
  /\ skill_call' =
       [called |-> TRUE,
        resume_data |-> skill_call.resume_data,
        match_results |->
          comprehensive_match(Unfitted, skill_call.resume_data, FullJob).report]
  /\ UNCHANGED <<scorer, tfidf_vectorizer, llm, calls, threads, score_call,
                 feedback_call, sim_call, evaluations, db>>

InitExperience ==
  /\ scorer = DefaultScorer
  /\ tfidf_vectorizer = Unfitted
  /\ llm = "none"
  /\ calls = <<>>
  /\ threads = <<>>
  /\ skill_call \in
       [called : {FALSE},
        resume_data :
          {[FullResume EXCEPT !.experience = resume_exp] :
             resume_exp \in SeqsUpTo(ExperienceRecords, MaxRecords)}]
  /\ score_call = NoCall
  /\ feedback_call = NoCall
  /\ sim_call = NoCall
  /\ evaluations = <<>>
  /\ db = [resumes |-> <<>>, jobs |-> <<>>]

SpecExperience == InitExperience /\ [][ExperienceCall]_vars

\* ---- one MatchReport handed to the scorer's and the feedback generator's
\* ---- methods in any order; score_call holds the objects the calls share

\* the most calls after comprehensive_match
MaxFrameCalls == 2

\* One call of method on the objects of score_call. The call appends what it
\* returns to returned, and leaves each argument as the method leaves it.
FrameCall(method) ==
  /\ method = "comprehensive_match" <=> ~score_call.called
  /\ Len(score_call.returned) < MaxFrameCalls
  /\ method = "generate_personalized_feedback"
     => \E i \in 1..Len(score_call.returned) :
          score_call.returned[i].method = "calculate_comprehensive_score"
  /\ score_call' =
       CASE method = "comprehensive_match" ->
              [called |-> TRUE,
               resume_data |-> score_call.resume_data,
               job_data |-> score_call.job_data,
               match_results |->
                 comprehensive_match(tfidf_vectorizer, score_call.resume_data,
                                     score_call.job_data).report,
               returned |-> <<>>]
         [] method = "calculate_comprehensive_score" ->
              [score_call EXCEPT !.returned = Append(@,
                 [method |-> method,
                  value |-> calculate_comprehensive_score(
                              scorer, score_call.match_results, PyNone)])]
         [] method = "generate_missing_elements" ->
              [score_call EXCEPT
                 !.match_results =
                    generate_missing_elements(score_call.match_results).match_results,
                 !.returned = Append(@,
                    [method |-> method,
                     value |-> generate_missing_elements(score_call.match_results)
                                 .missing_elements])]
         [] method = "generate_skill_gap_analysis" ->
              [score_call EXCEPT
                 !.match_results =
                    generate_skill_gap_analysis(score_call.match_results).match_results,
                 !.returned = Append(@,
                    [method |-> method,
                     value |-> generate_skill_gap_analysis(score_call.match_results)
                                 .skill_analysis])]
         [] method = "generate_personalized_feedback" ->
              [score_call EXCEPT !.returned = Append(@,
                 [method |-> method,
                  value |->
                    generate_personalized_feedback(
                      llm, score_call.resume_data, score_call.job_data,
                      (CHOOSE r \in {score_call.returned[i] :
                                       i \in 1..Len(score_call.returned)} :
                         r.method = "calculate_comprehensive_score").value,
                      score_call.match_results, [raises |-> TRUE])])]
  /\ tfidf_vectorizer' =
       IF method = "comprehensive_match"
         THEN comprehensive_match(tfidf_vectorizer, score_call.resume_data,
                                  score_call.job_data).vec
         ELSE tfidf_vectorizer
  /\ UNCHANGED <<scorer, llm, calls, threads, skill_call, feedback_call,
                 sim_call, evaluations, db>>

InitFrame ==
  /\ scorer = DefaultScorer
  /\ tfidf_vectorizer = Unfitted
  /\ llm = "none"
  /\ calls = <<>>
  /\ threads = <<>>
  /\ skill_call = NoCall
  /\ score_call \in [called : {FALSE}, resume_data : Resumes, job_data : Jobs,
                     returned : {<<>>}]
  /\ feedback_call = NoCall
  /\ sim_call = NoCall
  /\ evaluations = <<>>
  /\ db = [resumes |-> <<>>, jobs |-> <<>>]

SpecFrame ==
  /\ InitFrame
  /\ [][\E method \in {"comprehensive_match", "calculate_comprehensive_score",
                       "generate_missing_elements", "generate_skill_gap_analysis",
                       "generate_personalized_feedback"} : FrameCall(method)]_vars

\* ---- the upload routes and regenerate_evaluation on the tables; threads
\* ---- holds the requests that have stored their row and not yet evaluated

\* the most resumes, and the most jobs, uploaded
MaxUploads == 1

\* DocumentParser.parse_job_description on a text of words: clean_text turns
\* a special character into a blank, extract_skills lists the keywords of
\* skills_keywords that the lower-cased text holds (at most one for the
\* texts uploaded here, so list(set(...)) has one order)
parse_job_description(text) ==
  LET clean_text == SelectSeq(text, LAMBDA w : w # "!")
      found(keyword, skill) ==
        IF \E i \in 1..Len(clean_text) : LowerWord(clean_text[i]) = keyword
          THEN <<skill>> ELSE <<>>
  IN  [raw_text |-> text,
       clean_text |-> clean_text,
       required_skills |->
         found("python", py) \o found("sql", sql) \o found("aws", aws)]

RECURSIVE EvaluatePairs(_, _, _)
\* the loop of _evaluate_against_jobs (feedback FALSE) and of
\* _evaluate_job_against_resumes (feedback TRUE) over the pairs, on the
\* routes' matcher: the Evaluation rows added to the session, and the
\* vectorizer after the last comprehensive_match
EvaluatePairs(pairs, vec, feedback) ==
  IF pairs = <<>> THEN [rows |-> <<>>, vec |-> vec]
  ELSE
    LET pair == Head(pairs)
        m == comprehensive_match(vec, pair.resume_data, pair.job_data)
        scoring_results == calculate_comprehensive_score(scorer, m.report, PyNone)
        rest == EvaluatePairs(Tail(pairs), m.vec, feedback)
    IN  [rows |->
           <<[resume_id |-> pair.resume_id,
              job_id |-> pair.job_id,
              relevance_score |-> scoring_results.final_score,
              keyword_score |-> scoring_results.score_breakdown.keyword_score,
              semantic_score |-> scoring_results.score_breakdown.semantic_score,
              verdict |-> scoring_results.verdict,
              feedback |->
                IF feedback
                  THEN generate_personalized_feedback(
                         llm, pair.resume_data, pair.job_data, scoring_results,
                         m.report, [raises |-> TRUE])
                  ELSE PyNone,
              missing_skills |->
                Field(m.report, "exact_skill_match", "missing_skills", <<>>),
              matched_skills |->
                Field(m.report, "exact_skill_match", "matched_skills", <<>>)]>>
             \o rest.rows,
         vec |-> rest.vec]

\* upload_resume up to its first commit: the Resume row from the parser's
\* parsed_data
upload_resume(parsed_data) ==
  /\ Len(db.resumes) < MaxUploads
  /\ db' = [db EXCEPT !.resumes = Append(@,
       [content_text |-> Get(parsed_data, "clean_text", <<>>),
        extracted_skills |-> Get(parsed_data, "skills", <<>>),
        extracted_experience |-> Get(parsed_data, "experience", <<>>),
        extracted_education |-> Get(parsed_data, "education", <<>>)])]
  /\ threads' = Append(threads,
       [route |-> "upload_resume", id |-> Len(db.resumes) + 1,
        parsed |-> parsed_data])
  /\ UNCHANGED <<scorer, tfidf_vectorizer, llm, calls, skill_call, score_call,
                 feedback_call, sim_call, evaluations>>

\* upload_job_description up to its first commit: the Job row from the
\* request's text and job_metadata and from the parser's parsed_jd
upload_job_description(job_text, job_metadata) ==
  /\ Len(db.jobs) < MaxUploads
  /\ db' = [db EXCEPT !.jobs = Append(@,
       [description |-> job_text,
        required_skills |->
          Get(job_metadata, "required_skills", <<>>)
            \o parse_job_description(job_text).required_skills,
        preferred_skills |-> Get(job_metadata, "preferred_skills", <<>>)])]
  /\ threads' = Append(threads,
       [route |-> "upload_jd", id |-> Len(db.jobs) + 1,
        parsed |-> parse_job_description(job_text)])
  /\ UNCHANGED <<scorer, tfidf_vectorizer, llm, calls, skill_call, score_call,
                 feedback_call, sim_call, evaluations>>

\* _evaluate_against_jobs of request t: the parsed resume against the first
\* five active jobs, each as the job_data built from its row; the rows are
\* committed after the loop
evaluate_against_jobs(t) ==
  /\ threads[t].route = "upload_resume"
  /\ \E evaluated \in
       {EvaluatePairs([j \in 1..Min(Len(db.jobs), 5) |->
                        [resume_id |-> threads[t].id, job_id |-> j,
                         resume_data |-> threads[t].parsed,
                         job_data |->
                           [clean_text |-> db.jobs[j].description,
                            required_skills |-> db.jobs[j].required_skills,
                            preferred_skills |-> db.jobs[j].preferred_skills]]],
                      tfidf_vectorizer, FALSE)} :
       /\ evaluations' = evaluations \o evaluated.rows
       /\ tfidf_vectorizer' = evaluated.vec
  /\ threads' = [threads EXCEPT ![t].route = "done"]
  /\ UNCHANGED <<scorer, llm, calls, skill_call, score_call, feedback_call,
                 sim_call, db>>

\* _evaluate_job_against_resumes of request t: every processed resume, as
\* the resume_data built from its row, against the parsed job; the rows are
\* committed after the loop
evaluate_job_against_resumes(t) ==
  /\ threads[t].route = "upload_jd"
  /\ \E evaluated \in
       {EvaluatePairs([r \in 1..Len(db.resumes) |->
                        [resume_id |-> r, job_id |-> threads[t].id,
                         resume_data |->
                           [clean_text |-> db.resumes[r].content_text,
                            skills |-> db.resumes[r].extracted_skills,
                            experience |-> db.resumes[r].extracted_experience,
                            education |-> db.resumes[r].extracted_education],
                         job_data |-> threads[t].parsed]],
                      tfidf_vectorizer, TRUE)} :
       /\ evaluations' = evaluations \o evaluated.rows
       /\ tfidf_vectorizer' = evaluated.vec
  /\ threads' = [threads EXCEPT ![t].route = "done"]
  /\ UNCHANGED <<scorer, llm, calls, skill_call, score_call, feedback_call,
                 sim_call, db>>

\* regenerate_evaluation: the pipeline on the resume_data and job_data built
\* from the stored rows, with a new matcher and scorer; the Evaluation row
\* is updated in place
regenerate_evaluation(evaluation_id) ==
  /\ evaluations' =
       [evaluations EXCEPT ![evaluation_id] =
          EvaluatePairs(
            <<[resume_id |-> @.resume_id, job_id |-> @.job_id,
               resume_data |->
                 [clean_text |-> db.resumes[@.resume_id].content_text,
                  skills |-> db.resumes[@.resume_id].extracted_skills,
                  experience |-> db.resumes[@.resume_id].extracted_experience,
                  education |-> db.resumes[@.resume_id].extracted_education],
               job_data |->
                 [clean_text |-> db.jobs[@.job_id].description,
                  required_skills |-> db.jobs[@.job_id].required_skills,
                  preferred_skills |-> db.jobs[@.job_id].preferred_skills]]>>,
            Unfitted, TRUE).rows[1]]
  /\ UNCHANGED <<scorer, tfidf_vectorizer, llm, calls, threads, skill_call,
                 score_call, feedback_call, sim_call, db>>

\* requests of the three routes in any order, the evaluation of an upload
\* at any time after its row is stored
SpecUploads ==
  /\ Init
  /\ [][\/ \E parsed_data \in {FullResume, [FullResume EXCEPT !.skills = <<sql>>]} :
             upload_resume(parsed_data)
        \/ \E job_text \in {<<"python", "the">>, <<"sql", "!">>},
              job_metadata \in {EmptyDict, [required_skills |-> <<aws>>],
                                [preferred_skills |-> <<sql>>]} :
             upload_job_description(job_text, job_metadata)
        \/ \E t \in 1..Len(threads) : evaluate_against_jobs(t)
        \/ \E t \in 1..Len(threads) : evaluate_job_against_resumes(t)
        \/ \E evaluation_id \in 1..Len(evaluations) :
             regenerate_evaluation(evaluation_id)]_vars

\* ------------------------------------------------------------ properties

\* the sections of a MatchReport that comprehensive_match completed
ReportSections ==
  {"exact_skill_match", "fuzzy_skill_match", "bm25_match", "tfidf_match",
   "experience_match", "education_match", "overall_metrics"}

\* |a - b|
Dist(a, b) == IF a >= b THEN a - b ELSE b - a

\* C1: every final_score that calculate_comprehensive_score returns lies in
\* [0, 100]; checked on the evaluations of the routes.
C1_FinalScoreInRange ==
  \A i \in 1..Len(calls) :
    /\ calls[i].scoring_results.final_score >= 0
    /\ calls[i].scoring_results.final_score <= Hundred

\* C2: the verdict of a returned breakdown agrees with the final_score the
\* same breakdown reports: High exactly when final_score >= high_threshold,
\* Medium exactly when medium_threshold <= final_score < high_threshold,
\* Low otherwise.
C2_VerdictMatchesReportedScore ==
  score_call.called =>
    score_call.result.verdict =
      (IF score_call.result.final_score >= score_call.result.thresholds.high_threshold
       THEN "High"
       ELSE IF score_call.result.final_score
                 >= score_call.result.thresholds.medium_threshold
       THEN "Medium"
       ELSE "Low")

\* semantic_score * semantic_weight + keyword_score * keyword_weight on the
\* reported fields of a breakdown, times 10 (the weights are in tenths)
ReportedBlend(result) ==
  result.score_breakdown.semantic_score
      * result.score_breakdown.weights_used.semantic_weight
    + result.score_breakdown.keyword_score
      * result.score_breakdown.weights_used.keyword_weight

\* C3 as stated: on the reported fields of every breakdown without an error
\* field, final_score = min(100, base_weighted_score + bonus_score) and
\* base_weighted_score = semantic_score * semantic_weight
\* + keyword_score * keyword_weight, exactly.
C3_ReportedFieldsExact ==
  (score_call.called /\ ~HasKey(score_call.result, "error")) =>
    /\ score_call.result.final_score =
         Min(Hundred, score_call.result.score_breakdown.base_weighted_score
                        + score_call.result.score_breakdown.bonus_score)
    /\ 10 * score_call.result.score_breakdown.base_weighted_score =
         ReportedBlend(score_call.result)

\* C3: on the reported fields of every breakdown without an error field,
\* final_score = min(100, base_weighted_score + bonus_score), and
\* base_weighted_score is min(100, semantic_score * semantic_weight
\* + keyword_score * keyword_weight) up to the rounding of the three fields
\* to two decimals: half a cent for base_weighted_score, half a cent times
\* its weight for each of the two scores (and one unit of the arithmetic).
C3_ReportedFieldsCappedRounded ==
  (score_call.called /\ ~HasKey(score_call.result, "error")) =>
    /\ score_call.result.final_score =
         Min(Hundred, score_call.result.score_breakdown.base_weighted_score
                        + score_call.result.score_breakdown.bonus_score)
    /\ Dist(10 * score_call.result.score_breakdown.base_weighted_score,
            Min(10 * Hundred, ReportedBlend(score_call.result)))
         <= (Cent \div 2)
              * (10 + score_call.result.score_breakdown.weights_used.semantic_weight
                    + score_call.result.score_breakdown.weights_used.keyword_weight)
            + 10

\* C3, the case: keyword_score 90, semantic_score 50, weights 0.4 / 0.6 and
\* bonus 10 give base 66, final 76 and verdict High.
C3_Scenario ==
  /\ score_call.called
  /\ scorer = DefaultScorer
  /\ score_call.result.score_breakdown.keyword_score = 90 * PointScale
  /\ score_call.result.score_breakdown.semantic_score = 50 * PointScale
  /\ score_call.result.score_breakdown.bonus_score = 10 * PointScale
  /\ score_call.result.score_breakdown.base_weighted_score = 66 * PointScale
  /\ score_call.result.final_score = 76 * PointScale
  /\ score_call.result.verdict = "High"

\* the ScoreBreakdown of the pair on a matcher that has evaluated nothing
FreshBreakdown(resume_data, job_data) ==
  calculate_comprehensive_score(
    scorer, comprehensive_match(Unfitted, resume_data, job_data).report, PyNone)

\* C4: two evaluations of the same resume mapping and job mapping on the
\* same matcher and scorer return the same ScoreBreakdown, whatever was
\* evaluated before or between them: every evaluation returns the
\* breakdown its inputs give on a matcher that has evaluated nothing
\* (compared when the evaluation returns, as the latest of the state).
C4_SameInputsSameBreakdown ==
  \A i \in 1..Len(calls) :
    /\ i = Len(calls)
       => calls[i].scoring_results =
            FreshBreakdown(calls[i].resume_data, calls[i].job_data)
    /\ \A j \in 1..Len(calls) :
         (/\ calls[i].resume_data = calls[j].resume_data
          /\ calls[i].job_data = calls[j].job_data)
           => calls[i].scoring_results = calls[j].scoring_results

\* C4, the case: a pair is evaluated, then another pair whose texts fit the
\* vectorizer to a vocabulary of another size, then the first pair again,
\* and the first pair's texts have something in common.
C4_RepeatedAfterOther ==
  /\ Len(calls) = 3
  /\ calls[1].resume_data = calls[3].resume_data
  /\ calls[1].job_data = calls[3].job_data
  /\ Field(calls[3].match_results, "tfidf_match", "similarity_percentage", 0) > 0
  /\ Field(calls[2].match_results, "tfidf_match", "resume_vector_size", 0) > 0
  /\ Field(calls[2].match_results, "tfidf_match", "resume_vector_size", 0)
       # Field(calls[3].match_results, "tfidf_match", "resume_vector_size", 0)

\* the job skill s, lower-cased, is among the lower-cased resume skills
InResume(s) ==
  \E k \in 1..Len(skill_call.resume_skills) :
    Lower(skill_call.resume_skills[k]) = Lower(s)

NotInResume(s) == ~InResume(s)

\* C5: exact_skill_match puts each job skill, lower-cased, in matched_skills
\* if it equals a lower-cased resume skill and in missing_skills otherwise,
\* in job-list order; match_percentage is matched_count / total_required
\* * 100, lies in [0, 100], and is 0 with both lists empty for an empty job
\* list; resume [py, sql] against [py, sql, aws] gives matched [py, sql],
\* missing [aws] and 66.67.
C5_ExactPartition ==
  skill_call.called =>
    /\ skill_call.exact.matched_skills =
         SelectSeq(LowerAll(skill_call.job_skills), InResume)
    /\ skill_call.exact.missing_skills =
         SelectSeq(LowerAll(skill_call.job_skills), NotInResume)
    /\ skill_call.exact.matched_count = Len(skill_call.exact.matched_skills)
    /\ skill_call.exact.total_required = Len(skill_call.job_skills)
    /\ skill_call.exact.match_percentage >= 0
    /\ skill_call.exact.match_percentage <= Hundred
    /\ 2 * Dist(skill_call.exact.match_percentage * skill_call.exact.total_required,
                skill_call.exact.matched_count * Hundred)
         <= skill_call.exact.total_required
    /\ (skill_call.job_skills = <<>>) =>
         /\ skill_call.exact.match_percentage = 0
         /\ skill_call.exact.matched_skills = <<>>
         /\ skill_call.exact.missing_skills = <<>>
    /\ (skill_call.resume_skills = <<py, sql>>
          /\ skill_call.job_skills = <<py, sql, aws>>) =>
         /\ skill_call.exact.matched_skills = <<py, sql>>
         /\ skill_call.exact.missing_skills = <<aws>>
         /\ Round2(skill_call.exact.match_percentage) = 6667 * Cent

\* C5, the case: resume [py, sql] against required [py, sql, aws] has been
\* matched.
C5_Scenario ==
  /\ skill_call.called
  /\ skill_call.resume_skills = <<py, sql>>
  /\ skill_call.job_skills = <<py, sql, aws>>
  /\ Round2(skill_call.exact.match_percentage) = 6667 * Cent

\* C6: for a threshold <= 100, fuzzy_match_percentage is not below the
\* match_percentage of exact_skill_match on the same two lists, and every
\* job skill exact_skill_match matched is among the job skills
\* fuzzy_skill_match matched.
C6_FuzzyNotBelowExact ==
  (skill_call.called /\ skill_call.threshold <= 100) =>
    /\ skill_call.fuzzy.fuzzy_match_percentage >= skill_call.exact.match_percentage
    /\ \A i \in 1..Len(skill_call.job_skills) :
         InResume(skill_call.job_skills[i]) =>
           \E k \in 1..Len(skill_call.fuzzy.matched_skills) :
             skill_call.fuzzy.matched_skills[k].job_skill = skill_call.job_skills[i]

\* C6, the case: threshold 100, and a job skill that matches a resume
\* skill written in another case, with a job skill that does not match.
C6_CaseDifferingMatch ==
  /\ skill_call.called
  /\ skill_call.threshold = 100
  /\ skill_call.resume_skills = <<py>>
  /\ skill_call.job_skills = <<Py, sql>>
  /\ skill_call.exact.match_percentage = 50 * PointScale
  /\ skill_call.fuzzy.fuzzy_match_percentage = 50 * PointScale

\* C7: a comprehensive_match call that ran on the shared matcher together
\* with other calls returns the MatchReport it returns when run alone.
C7_ConcurrentReportAsAlone ==
  \A t \in DOMAIN threads :
    threads[t].pc = "done" =>
      threads[t].report =
        comprehensive_match(Unfitted, threads[t].resume_data,
                            threads[t].job_data).report

\* C8: comprehensive_match returns a report for every input; when a step
\* raised, the report's only key is error, and otherwise it holds the
\* seven sections and no error.
C8_ErrorOnlyReport ==
  \A i \in 1..Len(calls) :
    IF SkillMatchRaises(calls[i])
    THEN DOMAIN calls[i].match_results = {"error"}
    ELSE DOMAIN calls[i].match_results = ReportSections

\* C8, the case: a job whose required_skills hold a number has been
\* evaluated, and its report is the error report.
C8_ErrorReported ==
  \E i \in 1..Len(calls) :
    /\ In(NotAString, Get(calls[i].job_data, "required_skills", <<>>))
    /\ HasKey(calls[i].match_results, "error")

\* a sub-score calculation raises on match_results
SubScoreRaises(match_results) ==
  \E name \in {"exact_skill_match", "fuzzy_skill_match", "bm25_match",
               "tfidf_match", "experience_match", "education_match"} :
    SectionRaises(match_results, name)

\* C9: when a step of calculate_comprehensive_score raises, a sub-score
\* calculation included, the breakdown has final_score 0, verdict Low and
\* an error field.
C9_FailureIsZeroedWithError ==
  (score_call.called /\ SubScoreRaises(score_call.match_results)) =>
    /\ score_call.result.final_score = 0
    /\ score_call.result.verdict = "Low"
    /\ HasKey(score_call.result, "error")

\* C10: generate_personalized_feedback returns a non-empty string, whether
\* the service is not configured, failed to initialise, raises, or answers.
C10_FeedbackNeverEmpty ==
  feedback_call.called => Len(feedback_call.feedback) > 0

\* C11: for identical resume and job text that holds at least one term,
\* the TF-IDF similarity_percentage of calculate_tfidf_similarity and of
\* the matcher's tfidf_similarity is 100, and so is the Jaccard
\* similarity_percentage, within a hundredth of a point.
C11_IdenticalTextsFullSimilarity ==
  (/\ sim_call.called
   /\ sim_call.text1 = sim_call.text2
   /\ Analyze(tokenize_text(sim_call.text1)) # <<>>)
  => /\ Dist(sim_call.result.detailed_results.tfidf.similarity_percentage,
             Hundred) <= Cent
     /\ Dist(tfidf_similarity(Unfitted, tokenize_text(sim_call.text1),
                              tokenize_text(sim_call.text2))
               .result.similarity_percentage, Hundred) <= Cent
     /\ Dist(sim_call.result.detailed_results.jaccard.similarity_percentage,
             Hundred) <= Cent

\* a text of punctuation marks only, the empty text included
NoWords(text) == \A i \in 1..Len(text) : text[i] = "!"

\* C12: when either text is empty or holds no word, each of the four
\* similarity methods reports similarity_percentage 0 and
\* calculate_comprehensive_similarity returns its complete result, without
\* an error key of its own, with weighted_average 0.
C12_EmptyTextZeroSimilarity ==
  (sim_call.called /\ (NoWords(sim_call.text1) \/ NoWords(sim_call.text2)))
  => /\ DOMAIN sim_call.result
          = {"comprehensive_similarity", "detailed_results", "text_statistics"}
     /\ \A method \in {"tfidf", "bm25", "jaccard", "word_overlap"} :
          /\ sim_call.result.detailed_results[method].similarity_percentage = 0
          /\ sim_call.result.comprehensive_similarity.individual_scores[method] = 0
     /\ sim_call.result.comprehensive_similarity.weighted_average = 0

\* C12 scenario: a text of punctuation only against a text of two words,
\* and the call has returned.
C12_PunctuationOnlyText ==
  /\ sim_call.called
  /\ sim_call.text1 = <<"!">>
  /\ sim_call.text2 = <<"python", "sql">>
  /\ sim_call.result.text_statistics.text1_word_count = 0
  /\ sim_call.result.text_statistics.text2_word_count = 2

\* C13: the weighted_average of calculate_comprehensive_similarity is
\* 0.4 * tfidf + 0.3 * bm25 + 0.2 * jaccard + 0.1 * word_overlap of the
\* individual_scores of the same result, within the rounding of one unit,
\* for every pair of texts.
C13_WeightedAverageOfReportedScores ==
  sim_call.called
  => Dist(10 * sim_call.result.comprehensive_similarity.weighted_average,
          4 * sim_call.result.comprehensive_similarity.individual_scores.tfidf
          + 3 * sim_call.result.comprehensive_similarity.individual_scores.bm25
          + 2 * sim_call.result.comprehensive_similarity.individual_scores.jaccard
          + sim_call.result.comprehensive_similarity.individual_scores.word_overlap)
       <= 5

\* C13 scenario: two texts that share one of two words, so that the BM25,
\* Jaccard and word-overlap percentages are three different non-zero
\* numbers, and the call has returned.
C13_PartlySharedTexts ==
  /\ sim_call.called
  /\ sim_call.text1 = <<"python", "sql">>
  /\ sim_call.text2 = <<"python">>
  /\ sim_call.result.comprehensive_similarity.individual_scores.bm25 < 0
  /\ sim_call.result.comprehensive_similarity.individual_scores.jaccard = 50 * PointScale
  /\ sim_call.result.comprehensive_similarity.individual_scores.word_overlap = 75 * PointScale

\* the values comprehensive_match reads for the keys a mapping lacks
ResumeDefaults ==
  [skills |-> <<>>, clean_text |-> <<>>, experience |-> <<>>, education |-> <<>>]

JobDefaults ==
  [required_skills |-> <<>>, preferred_skills |-> <<>>, clean_text |-> <<>>]

\* the sections of a MatchReport with nothing matched
ZeroSections ==
  [exact_skill_match |-> [match_percentage |-> 0],
   fuzzy_skill_match |-> [fuzzy_match_percentage |-> 0],
   bm25_match |-> [normalized_score |-> 0],
   tfidf_match |-> [similarity_percentage |-> 0],
   experience_match |-> [has_experience |-> FALSE],
   education_match |-> [has_degree |-> FALSE]]

\* C14: for resume and job mappings that lack any subset of their keys,
\* comprehensive_match returns a MatchReport with every section and no
\* error key, the one it returns for the mappings with an empty list or
\* text under each absent key; and calculate_comprehensive_score on a
\* MatchReport that lacks any of its sections returns the ScoreBreakdown,
\* without an error field, that it returns with each absent section at 0
\* or false.
C14_AbsentKeysAsDefaults ==
  /\ \A i \in 1..Len(calls) :
       /\ DOMAIN calls[i].match_results = ReportSections
       /\ calls[i].match_results =
            comprehensive_match(Unfitted, calls[i].resume_data @@ ResumeDefaults,
                                calls[i].job_data @@ JobDefaults).report
       /\ ~HasKey(calls[i].scoring_results, "error")
  /\ score_call.called
     => /\ ~HasKey(score_call.result, "error")
        /\ score_call.result =
             calculate_comprehensive_score(
               scorer, score_call.match_results @@ ZeroSections, PyNone)

\* C14 scenario: a resume mapping with its text only has been matched with
\* a job mapping with its preferred skills only, and a MatchReport with
\* its fuzzy section only has been scored.
C14_MappingsWithKeysAbsent ==
  /\ Len(calls) = 1
  /\ DOMAIN calls[1].resume_data = {"clean_text"}
  /\ DOMAIN calls[1].job_data = {"preferred_skills"}
  /\ score_call.called
  /\ DOMAIN score_call.match_results = {"fuzzy_skill_match"}
  /\ score_call.result.score_breakdown.keyword_score > 0

\* C15: a MatchReport with an error key is not scored into the evaluations
\* table: the table holds one row per evaluation whose MatchReport has no
\* error key, and no row for the others.
C15_ErrorReportNotRecorded ==
  Len(evaluations)
    = Cardinality({i \in 1..Len(calls) : ~HasKey(calls[i].match_results, "error")})

\* C16: the BM25 similarity_percentage of calculate_bm25_similarity and the
\* normalized_score of the matcher's keyword_match_bm25 for the same two
\* texts are in [0, 100].
C16_Bm25PercentageInRange ==
  sim_call.called
  => /\ sim_call.result.detailed_results.bm25.similarity_percentage >= 0
     /\ sim_call.result.detailed_results.bm25.similarity_percentage <= Hundred
     /\ keyword_match_bm25(tokenize_text(sim_call.text1),
                           tokenize_text(sim_call.text2)).normalized_score >= 0
     /\ keyword_match_bm25(tokenize_text(sim_call.text1),
                           tokenize_text(sim_call.text2)).normalized_score <= Hundred

\* the best score of a job skill over the resume skills, 0 with none
BestScore(job_skill, resume_skills) ==
  MaxOf({0} \cup {PairScore(job_skill, resume_skills[k]) :
                    k \in 1..Len(resume_skills)})

\* the first resume skill, in list order, whose score is the best score
FirstBest(job_skill, resume_skills) ==
  resume_skills[CHOOSE k \in 1..Len(resume_skills) :
    /\ PairScore(job_skill, resume_skills[k]) = BestScore(job_skill, resume_skills)
    /\ \A j \in 1..(k - 1) :
         PairScore(job_skill, resume_skills[j]) < BestScore(job_skill, resume_skills)]

\* C17: fuzzy_skill_match puts the job skills whose best score over the
\* resume skills is at least the threshold in matched_skills, in list
\* order, and the others in missing_skills; a matched entry holds the best
\* score and the first resume skill in list order that attains it (any
\* value when there is no resume skill); fuzzy_match_percentage is
\* matched / total * 100, and 0 for no job skill.
C17_FuzzyPartitionFirstBest ==
  skill_call.called
  => /\ [i \in 1..Len(skill_call.fuzzy.matched_skills) |->
           skill_call.fuzzy.matched_skills[i].job_skill]
          = SelectSeq(skill_call.job_skills,
                      LAMBDA s : BestScore(s, skill_call.resume_skills)
                                   >= skill_call.threshold)
     /\ skill_call.fuzzy.missing_skills
          = SelectSeq(skill_call.job_skills,
                      LAMBDA s : BestScore(s, skill_call.resume_skills)
                                   < skill_call.threshold)
     /\ \A i \in 1..Len(skill_call.fuzzy.matched_skills) :
          /\ skill_call.fuzzy.matched_skills[i].similarity
               = BestScore(skill_call.fuzzy.matched_skills[i].job_skill,
                           skill_call.resume_skills)
          /\ Len(skill_call.resume_skills) > 0
             => skill_call.fuzzy.matched_skills[i].resume_skill
                  = FirstBest(skill_call.fuzzy.matched_skills[i].job_skill,
                              skill_call.resume_skills)
     /\ skill_call.fuzzy.fuzzy_match_percentage
          = Percentage(Len(skill_call.fuzzy.matched_skills),
                       Len(skill_call.job_skills))

\* C18: comprehensive_match matches exactly against the required skills
\* only, and fuzzily against the union of the required and the preferred
\* skills: each distinct job skill is in the fuzzy matched or missing list
\* once, so the two lists together are as long as the set of job skills.
C18_FuzzyOverUnionOfSkills ==
  \A i \in 1..Len(calls) :
    ~HasKey(calls[i].match_results, "error")
    => /\ calls[i].match_results.exact_skill_match
            = exact_skill_match(Get(calls[i].resume_data, "skills", <<>>),
                                Get(calls[i].job_data, "required_skills", <<>>))
       /\ Len(calls[i].match_results.fuzzy_skill_match.matched_skills)
            + Len(calls[i].match_results.fuzzy_skill_match.missing_skills)
            = Cardinality(WordsOf(Get(calls[i].job_data, "required_skills", <<>>))
                            \cup WordsOf(Get(calls[i].job_data, "preferred_skills", <<>>)))

\* C19: the keyword_score of every evaluation is min(100, exact * 0.5 +
\* fuzzy * 0.3 + bm25 normalized * 0.2) of its MatchReport, an absent
\* section counting as 0, rounded to two decimals, and is in [0, 100].
C19_KeywordScoreInRange ==
  \A i \in 1..Len(calls) :
    /\ calls[i].scoring_results.score_breakdown.keyword_score
         = Round2(Min(Hundred,
             RoundDiv(5 * Field(calls[i].match_results, "exact_skill_match",
                                "match_percentage", 0)
                        + 3 * Field(calls[i].match_results, "fuzzy_skill_match",
                                    "fuzzy_match_percentage", 0)
                        + 2 * Field(calls[i].match_results, "bm25_match",
                                    "normalized_score", 0),
                      10)))
    /\ calls[i].scoring_results.score_breakdown.keyword_score >= 0
    /\ calls[i].scoring_results.score_breakdown.keyword_score <= Hundred

\* C20: for a MatchReport whose tfidf_match section is a mapping or absent,
\* the reported semantic_score is the TF-IDF similarity_percentage (0 when
\* absent) when embedding_similarity is None, and min(100, tfidf * 0.4 +
\* embedding * 0.6) when a value is passed, the value 0 included, each
\* rounded to two decimals.
C20_SemanticScoreBlend ==
  (score_call.called /\ ~SectionRaises(score_call.match_results, "tfidf_match"))
  => score_call.result.score_breakdown.semantic_score
       = Round2(IF IsNone(score_call.embedding_similarity)
                THEN Field(score_call.match_results, "tfidf_match",
                           "similarity_percentage", 0)
                ELSE Min(Hundred,
                         RoundDiv(4 * Field(score_call.match_results, "tfidf_match",
                                            "similarity_percentage", 0)
                                    + 6 * score_call.embedding_similarity.value,
                                  10)))

\* C20 scenario: a TF-IDF percentage of 50 scored with the embedding
\* similarity 0 gives the semantic_score 20, not 50.
C20_ZeroEmbeddingSupplied ==
  /\ score_call.called
  /\ score_call.embedding_similarity = [value |-> 0]
  /\ HasKey(score_call.match_results, "tfidf_match")
  /\ score_call.match_results.tfidf_match = [similarity_percentage |-> 50 * PointScale]
  /\ score_call.result.score_breakdown.semantic_score = 20 * PointScale

\* C21: for a MatchReport whose experience, education and exact-match
\* sections are mappings or absent, the reported bonus_score is 5 for
\* has_experience plus 3 for has_degree plus 7 for an exact
\* match_percentage above 80 (none at 80), capped at 15, and so one of
\* 0, 3, 5, 7, 8, 10, 12, 15.
C21_BonusScoreValues ==
  (/\ score_call.called
   /\ ~SectionRaises(score_call.match_results, "experience_match")
   /\ ~SectionRaises(score_call.match_results, "education_match")
   /\ ~SectionRaises(score_call.match_results, "exact_skill_match"))
  => /\ score_call.result.score_breakdown.bonus_score
          = PointScale * Min(15,
              (IF Field(score_call.match_results, "experience_match",
                        "has_experience", FALSE) THEN 5 ELSE 0)
              + (IF Field(score_call.match_results, "education_match",
                          "has_degree", FALSE) THEN 3 ELSE 0)
              + (IF Field(score_call.match_results, "exact_skill_match",
                          "match_percentage", 0) > 80 * PointScale
                 THEN 7 ELSE 0))
     /\ score_call.result.score_breakdown.bonus_score
          \in {PointScale * b : b \in {0, 3, 5, 7, 8, 10, 12, 15}}

\* C21 scenario: a report with experience, a degree and an exact
\* match_percentage of exactly 80 has been scored, and the bonus is 8.
C21_ExactlyEightyPercent ==
  /\ score_call.called
  /\ {"exact_skill_match", "experience_match", "education_match"}
       \subseteq DOMAIN score_call.match_results
  /\ score_call.match_results.exact_skill_match = [match_percentage |-> 80 * PointScale]
  /\ score_call.match_results.experience_match = [has_experience |-> TRUE]
  /\ score_call.match_results.education_match = [has_degree |-> TRUE]
  /\ score_call.result.score_breakdown.bonus_score = 8 * PointScale

\* the MatchReport and the ScoreBreakdown of the feedback call's pair
FeedbackReport == comprehensive_match(Unfitted, feedback_call.resume_data, feedback_call.job_data).report

FeedbackBreakdown == calculate_comprehensive_score(scorer, FeedbackReport, PyNone)

\* the lowest score of the tier of a final_score: 75, 50 or 0
TierOf(score) ==
  IF score >= 75 * PointScale THEN 75 * PointScale
  ELSE IF score >= 50 * PointScale THEN 50 * PointScale
  ELSE 0

\* C22: when the service is not configured, failed to initialise, or the
\* call to it raises, the feedback is the fallback text, and that text is
\* the one the fallback gives for the tier of final_score and the exact
\* match's matched and missing lists alone, with nothing else of the
\* ScoreBreakdown and the MatchReport.
C22_FallbackFromTierAndSkills ==
  (/\ feedback_call.called
   /\ \/ llm = "none"
      \/ HasKey(feedback_call.outcome, "raises")
      \/ PromptRaises(feedback_call.resume_data, feedback_call.job_data))
  => /\ feedback_call.feedback
          = generate_fallback_feedback(FeedbackBreakdown, FeedbackReport)
     /\ feedback_call.feedback
          = generate_fallback_feedback(
              [final_score |-> TierOf(FeedbackBreakdown.final_score)],
              [exact_skill_match |->
                 [matched_skills |-> Field(FeedbackReport, "exact_skill_match",
                                           "matched_skills", <<>>),
                  missing_skills |-> Field(FeedbackReport, "exact_skill_match",
                                           "missing_skills", <<>>)]])

\* C22 scenario: the service is configured and its call raises for a pair
\* of the top tier with a missing skill.
C22_ServiceRaisesTopTier ==
  /\ feedback_call.called
  /\ llm = "client"
  /\ HasKey(feedback_call.outcome, "raises")
  /\ FeedbackBreakdown.final_score >= 75 * PointScale
  /\ Len(Field(FeedbackReport, "exact_skill_match", "missing_skills", <<>>)) > 0
  /\ Len(Field(FeedbackReport, "exact_skill_match", "matched_skills", <<>>)) > 0

\* the similarity methods whose detailed result carries an error
FailedMethods ==
  {method \in {"tfidf", "bm25", "jaccard", "word_overlap"} :
     HasKey(sim_call.result.detailed_results[method], "error")}

\* the weight of a method in the weighted average, in tenths
MethodWeight == [tfidf |-> 4, bm25 |-> 3, jaccard |-> 2, word_overlap |-> 1]

\* comprehensive_match of the full resume and job, with these texts
MatchWithTexts(resume_text, job_text) ==
  comprehensive_match(Unfitted, [FullResume EXCEPT !.clean_text = resume_text],
                      [FullJob EXCEPT !.clean_text = job_text]).report

\* C23: when one similarity method fails inside
\* calculate_comprehensive_similarity, the result still holds the four
\* detailed results, the failed method reports 0, and weighted_average is
\* the weighted sum of the three others; and when fit_transform or
\* BM25Okapi raises for the same two texts inside comprehensive_match, the
\* MatchReport has no error key, the failed section is zero, and its skill,
\* experience and education sections are those of the full resume and job.
C23_FailureStaysInItsSignal ==
  sim_call.called
  => /\ Cardinality(FailedMethods) = 1
        => /\ DOMAIN sim_call.result.detailed_results
                = {"tfidf", "bm25", "jaccard", "word_overlap"}
           /\ \A failed \in FailedMethods :
                /\ sim_call.result.detailed_results[failed].similarity_percentage = 0
                /\ Dist(10 * sim_call.result.comprehensive_similarity.weighted_average,
                        SumSeq([i \in 1..4 |->
                          LET method == <<"tfidf", "bm25", "jaccard", "word_overlap">>[i]
                          IN  IF method = failed
                                THEN 0
                                ELSE MethodWeight[method]
                                       * sim_call.result.detailed_results[method]
                                           .similarity_percentage]))
                     <= 5
     /\ Len(CountVocab(<<tokenize_text(sim_call.text1),
                         tokenize_text(sim_call.text2)>>).vocabulary) = 0
        => /\ DOMAIN MatchWithTexts(tokenize_text(sim_call.text1),
                                    tokenize_text(sim_call.text2)) = ReportSections
           /\ MatchWithTexts(tokenize_text(sim_call.text1),
                             tokenize_text(sim_call.text2)).tfidf_match = TfidfError
           /\ MatchWithTexts(tokenize_text(sim_call.text1),
                             tokenize_text(sim_call.text2)).bm25_match
                = keyword_match_bm25(tokenize_text(sim_call.text1),
                                     tokenize_text(sim_call.text2))
           /\ MatchWithTexts(tokenize_text(sim_call.text1),
                             tokenize_text(sim_call.text2)).exact_skill_match
                = MatchWithTexts(FullResume.clean_text, FullJob.clean_text).exact_skill_match
           /\ MatchWithTexts(tokenize_text(sim_call.text1),
                             tokenize_text(sim_call.text2)).fuzzy_skill_match
                = MatchWithTexts(FullResume.clean_text, FullJob.clean_text).fuzzy_skill_match
           /\ MatchWithTexts(tokenize_text(sim_call.text1),
                             tokenize_text(sim_call.text2)).experience_match
                = MatchWithTexts(FullResume.clean_text, FullJob.clean_text).experience_match
           /\ MatchWithTexts(tokenize_text(sim_call.text1),
                             tokenize_text(sim_call.text2)).education_match
                = MatchWithTexts(FullResume.clean_text, FullJob.clean_text).education_match

\* a call where TF-IDF alone fails, in SimilarityCalculator and in
\* comprehensive_match alike: both texts hold only a stop word, and the
\* three other methods still give a positive weighted average
C23_StopWordTexts ==
  /\ sim_call.called
  /\ FailedMethods = {"tfidf"}
  /\ Len(CountVocab(<<tokenize_text(sim_call.text1),
                      tokenize_text(sim_call.text2)>>).vocabulary) = 0
  /\ sim_call.result.comprehensive_similarity.weighted_average > 0

\* C24: whenever fit_transform raised inside tfidf_similarity (the two
\* texts leave an empty vocabulary) or BM25Okapi raised inside
\* keyword_match_bm25 (both texts empty) during an evaluation, the section
\* of the MatchReport is the zero-valued result and carries an error field.
C24_FailedSignalCarriesError ==
  \A i \in 1..Len(calls) :
    LET resume_text == Get(calls[i].resume_data, "clean_text", <<>>)
        job_text == Get(calls[i].job_data, "clean_text", <<>>)
    IN  HasKey(calls[i].match_results, "tfidf_match")
        => /\ Len(CountVocab(<<resume_text, job_text>>).vocabulary) = 0
              => /\ calls[i].match_results.tfidf_match.similarity_percentage = 0
                 /\ HasKey(calls[i].match_results.tfidf_match, "error")
           /\ Len(resume_text) + Len(job_text) = 0
              => /\ calls[i].match_results.bm25_match.normalized_score = 0
                 /\ HasKey(calls[i].match_results.bm25_match, "error")

\* the values that int() read from the years fields of the call's records
ParsedYears ==
  {IntOf(skill_call.resume_data.experience[i].years) :
     i \in {k \in 1..Len(skill_call.resume_data.experience) :
              /\ HasKey(skill_call.resume_data.experience[k], "years")
              /\ IsParseable(skill_call.resume_data.experience[k].years)}}

\* C25: has_experience holds exactly when the resume has an experience
\* record, and resume_max_years is the largest value that int() reads from
\* a years field, records without a readable years value being ignored;
\* it is 0 when no record has one.
C25_MaxOfParsedYears ==
  skill_call.called
  => /\ skill_call.match_results.experience_match.has_experience
          <=> Len(skill_call.resume_data.experience) > 0
     /\ ParsedYears = {}
        => skill_call.match_results.experience_match.resume_max_years = 0
     /\ ParsedYears # {}
        => /\ skill_call.match_results.experience_match.resume_max_years
                \in ParsedYears
           /\ \A years \in ParsedYears :
                years <= skill_call.match_results.experience_match.resume_max_years

\* a resume with a record of -1 years and a record whose years is None
C25_NegativeYearsAndNone ==
  /\ skill_call.called
  /\ ParsedYears = {0 - 1}
  /\ Len(skill_call.resume_data.experience) = 2
  /\ skill_call.match_results.experience_match.resume_max_years = 0 - 1

\* C25 as stated: moreover resume_max_years is 0 only when no record has a
\* parseable years field.
C25_ZeroOnlyWithoutParsedYears ==
  /\ C25_MaxOfParsedYears
  /\ skill_call.called
     /\ skill_call.match_results.experience_match.resume_max_years = 0
     => ParsedYears = {}

\* C26: a call of comprehensive_match leaves the resume and job mappings as
\* they were, and a call of calculate_comprehensive_score,
\* generate_missing_elements, generate_skill_gap_analysis or
\* generate_personalized_feedback leaves the mappings, the MatchReport and
\* every ScoreBreakdown returned so far as they were.
C26_ArgumentsLeftUnchanged ==
  [][/\ score_call'.resume_data = score_call.resume_data
     /\ score_call'.job_data = score_call.job_data
     /\ score_call.called
        => /\ score_call'.match_results = score_call.match_results
           /\ SubSeq(score_call'.returned, 1, Len(score_call.returned))
                = score_call.returned]_vars

\* a MatchReport with missing skills after generate_missing_elements and
\* one more call
C26_ReportThroughTwoCalls ==
  /\ score_call.called
  /\ Len(score_call.returned) = 2
  /\ \E i \in 1..2 : score_call.returned[i].method = "generate_missing_elements"
  /\ HasKey(score_call.match_results, "exact_skill_match")
  /\ Len(score_call.match_results.exact_skill_match.missing_skills) > 0
  /\ score_call.match_results
       = comprehensive_match(Unfitted, score_call.resume_data,
                             score_call.job_data).report

\* C27: the evaluations table holds at most one row for each pair of a
\* resume_id and a job_id.
C27_OneEvaluationPerPair ==
  \A i, j \in 1..Len(evaluations) :
    /\ evaluations[i].resume_id = evaluations[j].resume_id
    /\ evaluations[i].job_id = evaluations[j].job_id
    => i = j

\* C28: regenerate_evaluation on a row whose resume and job are as stored
\* leaves the row's relevance_score, verdict, matched_skills and
\* missing_skills as the upload recorded them.
C28_RegenerationReproducesUpload ==
  [][\A i \in 1..Len(evaluations) :
       /\ evaluations'[i].relevance_score = evaluations[i].relevance_score
       /\ evaluations'[i].verdict = evaluations[i].verdict
       /\ evaluations'[i].matched_skills = evaluations[i].matched_skills
       /\ evaluations'[i].missing_skills = evaluations[i].missing_skills]_vars

\* the MatchReports that raise the numeric field of one section of
\* match_results to a larger value, the other sections as they are
RaisedIn(match_results, name, field, sections) ==
  IF HasKey(match_results, name) /\ HasKey(match_results[name], field)
    THEN {[match_results EXCEPT ![name] = section] :
            section \in {s \in sections :
                           /\ HasKey(s, field)
                           /\ s[field] > match_results[name][field]}}
    ELSE {}

\* the MatchReport that switches an absent (false) signal to true
SwitchedOn(match_results, name, section) ==
  IF HasKey(match_results, name) THEN {} ELSE {(name :> section) @@ match_results}

\* the MatchReports one raise or one switch away from match_results
OneStepUp(match_results) ==
  RaisedIn(match_results, "exact_skill_match", "match_percentage", ExactSections)
    \cup RaisedIn(match_results, "fuzzy_skill_match", "fuzzy_match_percentage", FuzzySections)
    \cup RaisedIn(match_results, "bm25_match", "normalized_score", Bm25Sections)
    \cup RaisedIn(match_results, "tfidf_match", "similarity_percentage", TfidfSections)
    \cup SwitchedOn(match_results, "experience_match", [has_experience |-> TRUE])
    \cup SwitchedOn(match_results, "education_match", [has_degree |-> TRUE])

\* Low < Medium < High
TierRank(verdict) ==
  CASE verdict = "Low" -> 0 [] verdict = "Medium" -> 1 [] verdict = "High" -> 2

\* C29: a MatchReport that raises one of match_percentage,
\* fuzzy_match_percentage, normalized_score and similarity_percentage, or
\* switches has_experience or has_degree on, with the rest as in the call,
\* gets a final_score that is not lower and a verdict that is not a lower
\* tier, for each scorer of non-negative weights.
C29_ScoringMonotone ==
  score_call.called
  => \A raised \in OneStepUp(score_call.match_results) :
       /\ calculate_comprehensive_score(scorer, raised,
                                        score_call.embedding_similarity).final_score
            >= score_call.result.final_score
       /\ TierRank(calculate_comprehensive_score(
                     scorer, raised, score_call.embedding_similarity).verdict)
            >= TierRank(score_call.result.verdict)

\* a call whose verdict is Medium and that a larger match_percentage would
\* take to High
C29_RaiseReachesHigherTier ==
  /\ score_call.called
  /\ score_call.result.verdict = "Medium"
  /\ \E raised \in RaisedIn(score_call.match_results, "exact_skill_match",
                            "match_percentage", ExactSections) :
       calculate_comprehensive_score(scorer, raised,
                                     score_call.embedding_similarity).verdict = "High"

\* C30: under the default thresholds the fallback text written for a
\* ScoreBreakdown opens with 'Excellent match' exactly when the verdict is
\* High, with 'Good foundation' exactly when it is Medium, and with
\* 'Significant gaps' exactly when it is Low.
C30_FallbackTierIsVerdict ==
  /\ score_call.called
  /\ scorer = DefaultScorer
  /\ ~SectionRaises(score_call.match_results, "exact_skill_match")
  => LET opening ==
           Head(generate_fallback_feedback(score_call.result,
                                           score_call.match_results))
     IN  /\ opening = "Excellent match! Your resume shows strong alignment with the job requirements. "
            <=> score_call.result.verdict = "High"
         /\ opening = "Good foundation! Your resume has moderate alignment with the job requirements. "
            <=> score_call.result.verdict = "Medium"
         /\ opening = "Significant gaps identified. Your resume needs substantial improvements for this role. "
            <=> score_call.result.verdict = "Low"

====
